---- MODULE Spec2Model ----
(***************************************************************************)
(* Escrow transaction state machine of the Telegram escrow bot.            *)
(*                                                                         *)
(* State: the in-memory stores of the EscrowService objects the modules    *)
(* construct (one per handler module and one inside PaymentService).       *)
(* The users table behind UserService is not part of the state: whether    *)
(* get_user finds a row is an input of each call, because a registration   *)
(* or a database failure can come between any two calls.                   *)
(* A timestamp is the number of the write on its Transaction: each         *)
(* datetime.now() is later than every value the object holds.              *)
(* Operations: the EscrowService methods and the handler functions that    *)
(* mutate a stored Transaction and call update_transaction.                *)
(*                                                                         *)
(* Python aliasing is modelled as it behaves: get_transaction returns the  *)
(* stored object, so an assignment to transaction.status is a write to the *)
(* store whether or not the later update_transaction call succeeds.        *)
(***************************************************************************)
EXTENDS Integers, FiniteSets, Sequences, TLC

\* ---------------------------------------------------------------- bounds
\* Writes (stores and updates of Transaction objects) in one run, and
\* Transaction objects stored at one time, over all EscrowService objects.
MaxWrites == 6
MaxStored == 2
\* Rows of the disputes table of DisputeSystem, and resolutions counted
\* for one moderator.
MaxDisputes == 2
MaxResolved == 2
\* Largest amount entered in the creation flow, in cents, and largest
\* dispute amount, in units of 0.0001.
MaxAmountCents == 200
MaxDisputeAmount == 1100
\* Resolutions counted for one moderator when the resolution times are
\* followed.
MaxResolutions == 3
\* Trades one user completes, the last day on which the clock of
\* TrustSystem is advanced, and the days it is advanced by.
MaxTrades == 10
MaxDays == 30
DayStep == 15

\* Entries of the transaction list of one wallet, and the largest amount of
\* one deposit or withdrawal.
MaxWalletTransactions == 4
MaxWalletAmount == 3

\* ------------------------------------------------------------- constants
None == 0
Users == {1, 2, 3}
TxnIds == {"T1"}

\* The EscrowService objects of the program, by the module that builds them.
TH == "transaction_handlers"
PH == "payment_handlers"
PS == "payment_service"
DH == "dispute_handlers"
Instances == {TH, PH, PS, DH}

CREATED == "created"
FUNDED == "funded"
CONFIRMED == "confirmed"
COMPLETED == "completed"
DISPUTED == "disputed"
REFUNDED == "refunded"
CANCELLED == "cancelled"
TransactionStatus == {CREATED, FUNDED, CONFIRMED, COMPLETED, DISPUTED, REFUNDED, CANCELLED}

OPEN == "open"
RESOLVED == "resolved"

\* Resolution strings a caller may pass; "split" stands for every string
\* other than the three documented ones.
Resolutions == {"buyer", "seller", "refund", "split"}

\* The users whose calls create a transaction in the runs explored; every
\* user of Users may be a buyer and may call every operation.
Sellers == {1}

\* The EscrowService objects the direct calls are made on.
Driven == {PH, PS}

\* transactions, disputes: the dicts of the EscrowService objects.
\* last: the record of the last call made on them.
\* moderators, dispute_rows: the moderators and disputes tables of
\* DisputeSystem; calls: the DisputeSystem calls in progress.
\* pure: the last call of a function that reads and writes no store.
\* user_profiles, user_feedback, user_badges: the tables of TrustSystem;
\* today: the day the clock shows.
VARIABLES transactions, disputes, last, moderators, dispute_rows, calls, pure,
          user_profiles, user_feedback, user_badges, today
vars ==
  <<transactions, disputes, last, moderators, dispute_rows, calls, pure,
    user_profiles, user_feedback, user_badges, today>>

\* The tables of TrustSystem with its clock, and everything else.
trust_vars == <<user_profiles, user_feedback, user_badges, today>>
other_vars == <<transactions, disputes, last, moderators, dispute_rows, calls, pure>>

\* ------------------------------------------------------------------ text
\* A str is the sequence of its characters.
UpperCase ==
  <<"A", "B", "C", "D", "E", "F", "G", "H", "I", "J", "K", "L", "M", "N", "O", "P", "Q", "R", "S", "T", "U", "V", "W", "X", "Y", "Z">>

LowerCase ==
  <<"a", "b", "c", "d", "e", "f", "g", "h", "i", "j", "k", "l", "m", "n", "o", "p", "q", "r", "s", "t", "u", "v", "w", "x", "y", "z">>

\* The lower-case letter of each upper-case letter.
LowerOf ==
  [c \in {UpperCase[i] : i \in 1..Len(UpperCase)} |->
     LowerCase[CHOOSE i \in 1..Len(UpperCase) : UpperCase[i] = c]]

\* str.lower(), one character and a whole str.
lower_char(c) == IF c \in DOMAIN LowerOf THEN LowerOf[c] ELSE c

lower(s) == [i \in 1..Len(s) |-> lower_char(s[i])]

\* Python's "needle in hay" on two str.
contains(needle, hay) ==
  \E k \in 0..(Len(hay) - Len(needle)) :
    \A i \in 1..Len(needle) : hay[k + i] = needle[i]

\* dispute_type values a caller passes.
SERVICE_NOT_DELIVERED ==
  <<"s", "e", "r", "v", "i", "c", "e", "_", "n", "o", "t", "_", "d", "e", "l", "i", "v", "e", "r", "e", "d">>

PAYMENT_NOT_RECEIVED ==
  <<"p", "a", "y", "m", "e", "n", "t", "_", "n", "o", "t", "_", "r", "e", "c", "e", "i", "v", "e", "d">>

QUALITY_ISSUE ==
  <<"q", "u", "a", "l", "i", "t", "y", "_", "i", "s", "s", "u", "e">>

CRYPTO_UPPER ==
  <<"C", "R", "Y", "P", "T", "O">>

DisputeTypes == {SERVICE_NOT_DELIVERED, PAYMENT_NOT_RECEIVED, QUALITY_ISSUE, CRYPTO_UPPER}

\* ----------------------------------------------------------- data shapes
\* Transaction.dispute: None, or the dict written by open_dispute /
\* resolve_dispute.
NoDisputeInfo == [status |-> "none", resolution |-> "none"]

\* A key that is not in EscrowService.transactions.
NoTransaction ==
  [status |-> "absent", seller_id |-> None, buyer_id |-> None,
   updated_at |-> None, completed_at |-> None, dispute |-> NoDisputeInfo]

\* Transaction(...) as the dataclass builds it: status CREATED, no
\* timestamps but created_at, no dispute.
Transaction(seller, buyer) ==
  [status |-> CREATED, seller_id |-> seller, buyer_id |-> buyer,
   updated_at |-> None, completed_at |-> None, dispute |-> NoDisputeInfo]

\* A key that is not in EscrowService.disputes.
NoDispute ==
  [status |-> "absent", opened_by |-> "none", resolution |-> "none",
   opened_at |-> None, resolved_at |-> None]

\* --------------------------------------------- DisputeSystem data shapes
\* Moderator.id and Dispute.assigned_moderator are strings; NULL is the
\* column without a value.
NULL == "null"

\* The specialization texts of the default moderators, and two texts of
\* moderators added to the table by hand.
SPEC_HIGH_VALUE ==
  <<"H", "i", "g", "h", "-", "v", "a", "l", "u", "e", " ", "d", "i", "s",
    "p", "u", "t", "e", "s", ",", " ", "C", "o", "m", "p", "l", "e", "x",
    " ", "c", "a", "s", "e", "s">>

SPEC_CRYPTO ==
  <<"C", "r", "y", "p", "t", "o", " ", "d", "i", "s", "p", "u", "t", "e",
    "s", ",", " ", "T", "e", "c", "h", "n", "i", "c", "a", "l", " ", "i",
    "s", "s", "u", "e", "s">>

SPEC_SERVICE ==
  <<"S", "e", "r", "v", "i", "c", "e", " ", "d", "i", "s", "p", "u", "t",
    "e", "s", ",", " ", "Q", "u", "a", "l", "i", "t", "y", " ", "i", "s",
    "s", "u", "e", "s">>

SPEC_GENERAL ==
  <<"G", "e", "n", "e", "r", "a", "l", " ", "d", "i", "s", "p", "u", "t",
    "e", "s", ",", " ", "F", "i", "r", "s", "t", " ", "r", "e", "s", "p",
    "o", "n", "s", "e">>

SPEC_QUALITY ==
  <<"Q", "u", "a", "l", "i", "t", "y", "_", "I", "s", "s", "u", "e", ",",
    " ", "r", "e", "f", "u", "n", "d", "s">>

\* Moderator(**mod_data): the columns not given take their defaults.
Moderator(role_level, specialization, max_case_load) ==
  [role_level |-> role_level, specialization |-> specialization,
   is_active |-> TRUE, is_available |-> TRUE, current_case_load |-> 0,
   max_case_load |-> max_case_load, cases_handled |-> 0, cases_resolved |-> 0]

\* _initialize_moderators on an empty table.
default_moderators ==
  "001" :> Moderator("admin", SPEC_HIGH_VALUE, 15) @@
  "002" :> Moderator("senior", SPEC_CRYPTO, 12) @@
  "003" :> Moderator("senior", SPEC_SERVICE, 10) @@
  "004" :> Moderator("junior", SPEC_GENERAL, 8)

\* Tables that _initialize_moderators finds populated and leaves alone:
\* two moderators with small case loads, any of them switched off.
SmallTables ==
  {"001" :> [Moderator("junior", s1, 1) EXCEPT !.is_active = a1] @@
   "002" :> [Moderator(r2, SPEC_GENERAL, c2) EXCEPT !.is_available = v2] :
     s1 \in {SPEC_GENERAL, SPEC_QUALITY}, a1 \in BOOLEAN,
     r2 \in {"admin", "senior"}, c2 \in {1, 2}, v2 \in BOOLEAN}

ModeratorTables == {default_moderators} \cup SmallTables

\* Tables with one moderator, whose maximum the calls explored can reach.
SingleTables == {"001" :> Moderator("junior", SPEC_QUALITY, c) : c \in {1, 2}}

\* Dispute ids are drawn at random (uuid4); a new dispute takes an id no
\* row has.
DisputeIds == 1..MaxDisputes

\* A key that is not in the disputes table.
NoDisputeRow ==
  [status |-> "absent", transaction_id |-> "none", assigned_moderator |-> NULL,
   priority |-> "none"]

\* The callers of DisputeSystem that run at the same time.
Procs == {1, 2}

\* No call in progress.
Idle == [pc |-> "idle", dispute |-> 0, moderator |-> NULL, seen |-> 0, load |-> 0, resolved |-> 0]


\* EscrowService.get_transaction / get_dispute: dict.get, None when absent.
get_transaction(es, tid) ==
  IF tid \in TxnIds THEN transactions[es][tid] ELSE NoTransaction

get_dispute(es, tid) ==
  IF tid \in TxnIds THEN disputes[es][tid] ELSE NoDispute

\* UserService.get_user: the User when the query works and finds the row
\* (row = TRUE), None when there is no row or the query raises.
get_user(uid, row) == row

Stored ==
  {p \in Instances \X TxnIds : transactions[p[1]][p[2]].status # "absent"}

StoredCount == Cardinality(Stored)

RECURSIVE SumWrites(_)
SumWrites(S) ==
  IF S = {} THEN 0
  ELSE LET p == CHOOSE q \in S : TRUE
       IN 1 + transactions[p[1]][p[2]].updated_at + SumWrites(S \ {p})

\* Writes made so far: one for each stored object and one for each update.
Writes == SumWrites(Stored)

\* ---- TrustSystem: the shapes of its tables
\* The telegram ids that get a profile where trades are followed, and the
\* ids that give feedback; the tables have a place for each of the latter.
TrustUsers == {"u1"}
Givers == {"u1", "u2"}

\* Ratings a caller passes: one of each feedback type.
Ratings == {2, 3, 4}

\* The names of the rows _initialize_badges stores in badge_types.
BadgeNames ==
  {"First Timer", "Trusted Trader", "Elite Trader", "Fast Responder", "Verified Pro",
   "Customer Champion", "Dispute Resolver", "Community Helper"}

\* A telegram id without a row in user_profiles.
NoProfile == [exists |-> FALSE]

\* Everything but the moderators table and the tables of TrustSystem,
\* after construction.
InitOthers ==
  /\ transactions = [es \in Instances |-> [t \in TxnIds |-> NoTransaction]]
  /\ disputes = [es \in Instances |-> [t \in TxnIds |-> NoDispute]]
  /\ last = [call |-> "none", es |-> TH, tid |-> "T1", uid |-> None, arg |-> "none",
             ret |-> FALSE]
  /\ dispute_rows = [d \in DisputeIds |-> NoDisputeRow]
  /\ calls = [p \in Procs |-> Idle]
  /\ pure = [fn |-> "none", args |-> <<>>, out |-> "none"]

\* Everything but the moderators table, after construction on a database
\* without rows in the tables of TrustSystem.
InitStores ==
  /\ InitOthers
  /\ user_profiles = [u \in Givers |-> NoProfile]
  /\ user_feedback = <<>>
  /\ user_badges = [u \in Givers |-> [b \in BadgeNames |-> 0]]
  /\ today = 0

\* Construction on an empty database.
Init ==
  /\ InitStores
  /\ moderators = default_moderators

\* Construction on an empty database, or on one whose moderators table
\* has rows.
InitModerators ==
  /\ InitStores
  /\ moderators \in {default_moderators} \cup SingleTables

\* Construction on a database whose moderators table has rows.
InitSingle ==
  /\ InitStores
  /\ moderators \in SingleTables

\* ------------------------------------------------- EscrowService methods
\* Each method is an operator from the stored objects (the Transaction t
\* and, for the dispute methods, the dispute dict d) to the objects it
\* leaves in the store and the value it returns.  row tells whether
\* get_user finds the buyer's row during the call.

\* datetime.now() during a call on t: later than t's last write.
now(t) == t.updated_at + 1

\* update_transaction: the caller passes the stored object, so the
\* membership test is on the object itself; clock is datetime.now().  updated_at is written and the
\* object stored before the buyer's User is loaded; when get_user returns
\* None the attribute access raises, the except returns False, and the
\* writes stay.
update_transaction(t, clock, row) ==
  IF t.status = "absent"
  THEN [txn |-> t, ret |-> FALSE]
  ELSE [txn |-> [t EXCEPT !.updated_at = clock],
        ret |-> (t.buyer_id = None \/ get_user(t.buyer_id, row))]

cancel_transaction(t, uid, row) ==
  IF t.status = "absent" THEN [txn |-> t, ret |-> FALSE]
  ELSE IF uid # t.seller_id /\ uid # t.buyer_id THEN [txn |-> t, ret |-> FALSE]
  ELSE IF t.status # CREATED THEN [txn |-> t, ret |-> FALSE]
  ELSE update_transaction([t EXCEPT !.status = CANCELLED, !.updated_at = now(t)], now(t), row)

\* Mutant of confirm_transaction: the status test is missing.
confirm_transaction_any_status(t, uid, row) ==
  IF t.status = "absent" THEN [txn |-> t, ret |-> FALSE]
  ELSE IF uid # t.seller_id THEN [txn |-> t, ret |-> FALSE]
  ELSE update_transaction([t EXCEPT !.status = CONFIRMED, !.updated_at = now(t)], now(t), row)

confirm_transaction(t, uid, row) ==
  IF t.status = "absent" THEN [txn |-> t, ret |-> FALSE]
  ELSE IF uid # t.seller_id THEN [txn |-> t, ret |-> FALSE]
  ELSE IF t.status # FUNDED THEN [txn |-> t, ret |-> FALSE]
  ELSE update_transaction([t EXCEPT !.status = CONFIRMED, !.updated_at = now(t)], now(t), row)

\* Mutant of complete_transaction: the seller is accepted as well.
complete_transaction_any_party(t, uid, row) ==
  IF t.status = "absent" THEN [txn |-> t, ret |-> FALSE]
  ELSE IF uid # t.buyer_id /\ uid # t.seller_id THEN [txn |-> t, ret |-> FALSE]
  ELSE IF t.status # CONFIRMED THEN [txn |-> t, ret |-> FALSE]
  ELSE update_transaction([t EXCEPT !.status = COMPLETED, !.updated_at = now(t),
                                    !.completed_at = now(t)], now(t), row)

\* Mutant of complete_transaction: completed_at is not written.
complete_transaction_no_completed_at(t, uid, row) ==
  IF t.status = "absent" THEN [txn |-> t, ret |-> FALSE]
  ELSE IF uid # t.buyer_id THEN [txn |-> t, ret |-> FALSE]
  ELSE IF t.status # CONFIRMED THEN [txn |-> t, ret |-> FALSE]
  ELSE update_transaction([t EXCEPT !.status = COMPLETED, !.updated_at = now(t)],
                          now(t), row)

complete_transaction(t, uid, row) ==
  IF t.status = "absent" THEN [txn |-> t, ret |-> FALSE]
  ELSE IF uid # t.buyer_id THEN [txn |-> t, ret |-> FALSE]
  ELSE IF t.status # CONFIRMED THEN [txn |-> t, ret |-> FALSE]
  ELSE update_transaction([t EXCEPT !.status = COMPLETED, !.updated_at = now(t),
                                    !.completed_at = now(t)], now(t), row)

\* Mutant of open_dispute: the test for an existing dispute is missing.
open_dispute_no_existing_check(t, d, uid, row) ==
  IF t.status = "absent" THEN [txn |-> t, disp |-> d, ret |-> FALSE]
  ELSE IF uid # t.seller_id /\ uid # t.buyer_id THEN [txn |-> t, disp |-> d, ret |-> FALSE]
  ELSE IF t.status \notin {FUNDED, CONFIRMED} THEN [txn |-> t, disp |-> d, ret |-> FALSE]
  ELSE [txn |-> update_transaction(
                  [t EXCEPT !.status = DISPUTED, !.updated_at = now(t),
                            !.dispute = [status |-> OPEN, resolution |-> "none"]],
                  now(t), row).txn,
        disp |-> [status |-> OPEN,
                  opened_by |-> IF uid = t.seller_id THEN "seller" ELSE "buyer",
                  resolution |-> "none", opened_at |-> now(t), resolved_at |-> None],
        ret |-> TRUE]

\* Mutant of open_dispute: the opener's role is derived the wrong way round.
open_dispute_role_swapped(t, d, uid, row) ==
  IF t.status = "absent" THEN [txn |-> t, disp |-> d, ret |-> FALSE]
  ELSE IF uid # t.seller_id /\ uid # t.buyer_id THEN [txn |-> t, disp |-> d, ret |-> FALSE]
  ELSE IF t.status \notin {FUNDED, CONFIRMED} THEN [txn |-> t, disp |-> d, ret |-> FALSE]
  ELSE IF d.status # "absent" THEN [txn |-> t, disp |-> d, ret |-> FALSE]
  ELSE [txn |-> update_transaction(
                  [t EXCEPT !.status = DISPUTED, !.updated_at = now(t),
                            !.dispute = [status |-> OPEN, resolution |-> "none"]],
                  now(t), row).txn,
        disp |-> [status |-> OPEN,
                  opened_by |-> IF uid = t.seller_id THEN "buyer" ELSE "seller",
                  resolution |-> "none", opened_at |-> now(t), resolved_at |-> None],
        ret |-> TRUE]

\* open_dispute ignores what update_transaction returns and returns True.
open_dispute(t, d, uid, row) ==
  IF t.status = "absent" THEN [txn |-> t, disp |-> d, ret |-> FALSE]
  ELSE IF uid # t.seller_id /\ uid # t.buyer_id THEN [txn |-> t, disp |-> d, ret |-> FALSE]
  ELSE IF t.status \notin {FUNDED, CONFIRMED} THEN [txn |-> t, disp |-> d, ret |-> FALSE]
  ELSE IF d.status # "absent" THEN [txn |-> t, disp |-> d, ret |-> FALSE]
  ELSE [txn |-> update_transaction(
                  [t EXCEPT !.status = DISPUTED, !.updated_at = now(t),
                            !.dispute = [status |-> OPEN, resolution |-> "none"]],
                  now(t), row).txn,
        disp |-> [status |-> OPEN,
                  opened_by |-> IF uid = t.seller_id THEN "seller" ELSE "buyer",
                  resolution |-> "none", opened_at |-> now(t), resolved_at |-> None],
        ret |-> TRUE]

\* Mutant of resolve_dispute: 'buyer' releases the funds to the seller.
resolve_dispute_buyer_completes(t, d, resolution, row) ==
  IF t.status = "absent" \/ d.status = "absent" THEN [txn |-> t, disp |-> d, ret |-> FALSE]
  ELSE IF d.status # OPEN THEN [txn |-> t, disp |-> d, ret |-> FALSE]
  ELSE
    LET t1 == IF resolution = "buyer" \/ resolution = "seller"
              THEN [t EXCEPT !.status = COMPLETED, !.completed_at = now(t)]
              ELSE [t EXCEPT !.status = REFUNDED]
        t2 == [t1 EXCEPT !.updated_at = now(t),
                         !.dispute = [status |-> RESOLVED, resolution |-> resolution]]
    IN [txn |-> update_transaction(t2, now(t), row).txn,
        disp |-> [d EXCEPT !.status = RESOLVED, !.resolution = resolution,
                           !.resolved_at = now(t)],
        ret |-> TRUE]

\* resolve_dispute: every resolution other than 'buyer' and 'seller' takes
\* the else branch; the transaction's status is not consulted.
resolve_dispute(t, d, resolution, row) ==
  IF t.status = "absent" \/ d.status = "absent" THEN [txn |-> t, disp |-> d, ret |-> FALSE]
  ELSE IF d.status # OPEN THEN [txn |-> t, disp |-> d, ret |-> FALSE]
  ELSE
    LET t1 == IF resolution = "buyer" THEN [t EXCEPT !.status = REFUNDED]
              ELSE IF resolution = "seller"
                   THEN [t EXCEPT !.status = COMPLETED, !.completed_at = now(t)]
                   ELSE [t EXCEPT !.status = REFUNDED]
        t2 == [t1 EXCEPT !.updated_at = now(t),
                         !.dispute = [status |-> RESOLVED, resolution |-> resolution]]
    IN [txn |-> update_transaction(t2, now(t), row).txn,
        disp |-> [d EXCEPT !.status = RESOLVED, !.resolution = resolution,
                           !.resolved_at = now(t)],
        ret |-> TRUE]

\* ------------------------------------------------------------ bookkeeping
\* One call returns: the objects it left in instance es under key tid, and
\* the record of the call.  The clock advances when the call wrote.
Commit(call, es, tid, uid, arg, t2, d2, ret) ==
  LET wrote == t2 # transactions[es][tid] \/ d2 # disputes[es][tid]
  IN /\ wrote => Writes < MaxWrites
     /\ transactions' = [transactions EXCEPT ![es][tid] = t2]
     /\ disputes' = [disputes EXCEPT ![es][tid] = d2]
     /\ last' = [call |-> call, es |-> es, tid |-> tid, uid |-> uid,
                 arg |-> arg, ret |-> ret]
     /\ UNCHANGED <<moderators, dispute_rows, calls, pure, trust_vars>>

\* A handler that returned before it wrote or called a method of
\* EscrowService; reply names the message it sent.
Reply(handler, es, tid, uid, reply) ==
  /\ last' = [call |-> handler, es |-> es, tid |-> tid, uid |-> uid,
              arg |-> reply, ret |-> FALSE]
  /\ UNCHANGED <<transactions, disputes, moderators, dispute_rows, calls, pure, trust_vars>>

\* The outcomes of get_user that a call has to be tried with: both when the
\* call's result depends on it, one when it does not.
Rows(Call(_)) == IF Call(TRUE) = Call(FALSE) THEN {TRUE} ELSE BOOLEAN

\* --------------------------------------- direct calls of EscrowService
\* create_transaction: refuses a key that is stored, else stores the
\* object; add_transaction_to_user's result is ignored.
\* Mutant of create_transaction: a stored key is overwritten.
create_transaction_overwrites(stored, t) ==
  [txn |-> t, ret |-> TRUE]

create_transaction(stored, t) ==
  IF stored.status # "absent" THEN [txn |-> stored, ret |-> FALSE]
  ELSE [txn |-> t, ret |-> TRUE]

CreateTransaction ==
  \E es \in Driven, tid \in TxnIds, seller \in Sellers, buyer \in Users \cup {None} :
    LET r == create_transaction(transactions[es][tid], Transaction(seller, buyer))
    IN /\ r.ret => StoredCount < MaxStored
       /\ Commit("create_transaction", es, tid, seller, "none",
                 r.txn, disputes[es][tid], r.ret)

CancelTransaction ==
  \E es \in Driven, tid \in TxnIds, uid \in Users :
    \E row \in Rows(LAMBDA b : cancel_transaction(transactions[es][tid], uid, b)) :
    LET r == cancel_transaction(transactions[es][tid], uid, row)
    IN Commit("cancel_transaction", es, tid, uid, "none",
              r.txn, disputes[es][tid], r.ret)

ConfirmTransaction ==
  \E es \in Driven, tid \in TxnIds, uid \in Users :
    \E row \in Rows(LAMBDA b : confirm_transaction(transactions[es][tid], uid, b)) :
    LET r == confirm_transaction(transactions[es][tid], uid, row)
    IN Commit("confirm_transaction", es, tid, uid, "none",
              r.txn, disputes[es][tid], r.ret)

CompleteTransaction ==
  \E es \in Driven, tid \in TxnIds, uid \in Users :
    \E row \in Rows(LAMBDA b : complete_transaction(transactions[es][tid], uid, b)) :
    LET r == complete_transaction(transactions[es][tid], uid, row)
    IN Commit("complete_transaction", es, tid, uid, "none",
              r.txn, disputes[es][tid], r.ret)

OpenDispute ==
  \E es \in Driven, tid \in TxnIds, uid \in Users :
    \E row \in Rows(LAMBDA b : open_dispute(transactions[es][tid], disputes[es][tid], uid, b)) :
    LET r == open_dispute(transactions[es][tid], disputes[es][tid], uid, row)
    IN Commit("open_dispute", es, tid, uid, "none", r.txn, r.disp, r.ret)

ResolveDispute ==
  \E es \in Driven, tid \in TxnIds, res \in Resolutions :
    \E row \in Rows(LAMBDA b : resolve_dispute(transactions[es][tid], disputes[es][tid], res, b)) :
    LET r == resolve_dispute(transactions[es][tid], disputes[es][tid], res, row)
    IN Commit("resolve_dispute", es, tid, None, res, r.txn, r.disp, r.ret)

\* ---------------------------------------------------------------- handlers
\* /new ... "Confirm": the creation flow of transaction_handlers.  The id is
\* drawn at random, the seller is the user of the conversation, the status
\* is CREATED and there is no buyer.
NewTransaction ==
  \E tid \in TxnIds, uid \in Sellers, row \in BOOLEAN :
    IF ~get_user(uid, row) THEN Reply("transaction_confirm", TH, tid, uid, "register_first")
    ELSE LET r == create_transaction(transactions[TH][tid], Transaction(uid, None))
         IN /\ r.ret => StoredCount < MaxStored
            /\ Commit("create_transaction", TH, tid, uid,
                      "none", r.txn, disputes[TH][tid], r.ret)

\* PaymentService.confirm_payment_sent reads the EscrowService object that
\* PaymentService built for itself.
confirm_payment_sent(tid, uid) ==
  LET t == get_transaction(PS, tid)
  IN t.status # "absent" /\ uid = t.buyer_id

\* Mutant of SendPayment: the caller replaces a buyer who has joined.
SendPayment_replaces_buyer ==
  \E tid \in TxnIds, uid \in Users, row1 \in BOOLEAN :
    LET t == get_transaction(PH, tid)
    IN IF ~get_user(uid, row1) THEN Reply("send_payment", PH, tid, uid, "register_first")
       ELSE IF t.status = "absent" THEN Reply("send_payment", PH, tid, uid, "not_found")
       ELSE IF t.buyer_id # uid
            THEN \E row2 \in BOOLEAN :
                 LET r == update_transaction([t EXCEPT !.buyer_id = uid], now(t), row2)
                 IN Commit("send_payment", PH, tid, uid, "none",
                           r.txn, disputes[PH][tid], r.ret)
            ELSE Reply("send_payment", PH, tid, uid, "instructions")

\* /pay: the join step.  The status check comes after the buyer is written.
SendPayment ==
  \E tid \in TxnIds, uid \in Users, row1 \in BOOLEAN :
    LET t == get_transaction(PH, tid)
    IN IF ~get_user(uid, row1) THEN Reply("send_payment", PH, tid, uid, "register_first")
       ELSE IF t.status = "absent" THEN Reply("send_payment", PH, tid, uid, "not_found")
       ELSE IF t.buyer_id # None /\ t.buyer_id # uid THEN Reply("send_payment", PH, tid, uid, "not_the_buyer")
       ELSE IF t.buyer_id = None
            THEN \E row2 \in BOOLEAN :
                 LET r == update_transaction([t EXCEPT !.buyer_id = uid], now(t), row2)
                 IN Commit("send_payment", PH, tid, uid, "none",
                           r.txn, disputes[PH][tid], r.ret)
            ELSE Reply("send_payment", PH, tid, uid, "instructions")

\* /confirm_payment: buyer and status are checked by the handler.
ConfirmPayment ==
  \E tid \in TxnIds, uid \in Users, row1 \in BOOLEAN :
    LET t == get_transaction(PH, tid)
    IN IF ~get_user(uid, row1) THEN Reply("confirm_payment", PH, tid, uid, "register_first")
       ELSE IF t.status = "absent" THEN Reply("confirm_payment", PH, tid, uid, "not_found")
       ELSE IF uid # t.buyer_id THEN Reply("confirm_payment", PH, tid, uid, "not_the_buyer")
       ELSE IF t.status # CREATED THEN Reply("confirm_payment", PH, tid, uid, "wrong_status")
       ELSE IF confirm_payment_sent(tid, uid)
            THEN \E row2 \in BOOLEAN :
                 LET r == update_transaction([t EXCEPT !.status = FUNDED], now(t), row2)
                 IN Commit("confirm_payment", PH, tid, uid, "none",
                           r.txn, disputes[PH][tid], r.ret)
            ELSE Reply("confirm_payment", PH, tid, uid, "failed")

\* payment_callback, data pay_sent_<id>: only confirm_payment_sent stands
\* between the button and the write of FUNDED.
PaymentCallbackSent ==
  \E tid \in TxnIds, uid \in Users :
    LET t == get_transaction(PH, tid)
    IN IF t.status = "absent" THEN Reply("payment_callback", PH, tid, uid, "not_found")
       ELSE IF confirm_payment_sent(tid, uid)
            THEN \E row \in BOOLEAN :
                 LET r == update_transaction([t EXCEPT !.status = FUNDED], now(t), row)
                 IN Commit("payment_callback", PH, tid, uid, "none",
                           r.txn, disputes[PH][tid], r.ret)
            ELSE Reply("payment_callback", PH, tid, uid, "failed")

\* /cancel <id>: asks the question whose "Yes, Cancel" button carries
\* txn_cancel_confirm_<id>; it calls no method of EscrowService.
CancelCommand ==
  \E tid \in TxnIds, uid \in Users, row \in BOOLEAN :
    LET t == get_transaction(TH, tid)
    IN IF ~get_user(uid, row) THEN Reply("cancel_command", TH, tid, uid, "register_first")
       ELSE IF t.status = "absent" THEN Reply("cancel_command", TH, tid, uid, "not_found")
       ELSE IF uid # t.seller_id /\ uid # t.buyer_id
            THEN Reply("cancel_command", TH, tid, uid, "no_access")
       ELSE IF t.status # CREATED THEN Reply("cancel_command", TH, tid, uid, "wrong_status")
       ELSE Reply("cancel_command", TH, tid, uid, "question")

\* /complete <id>: asks the question whose "Yes, Complete" button carries
\* txn_complete_confirm_<id>.
CompleteCommand ==
  \E tid \in TxnIds, uid \in Users, row \in BOOLEAN :
    LET t == get_transaction(TH, tid)
    IN IF ~get_user(uid, row) THEN Reply("complete_command", TH, tid, uid, "register_first")
       ELSE IF t.status = "absent" THEN Reply("complete_command", TH, tid, uid, "not_found")
       ELSE IF uid # t.buyer_id THEN Reply("complete_command", TH, tid, uid, "not_the_buyer")
       ELSE IF t.status # CONFIRMED THEN Reply("complete_command", TH, tid, uid, "wrong_status")
       ELSE Reply("complete_command", TH, tid, uid, "question")

\* Callback data of the transaction buttons, split at "_".
CallbackData ==
  UNION {{<<"txn", "fund", t>>, <<"txn", "cancel", t>>, <<"txn", "confirm", t>>,
          <<"txn", "complete", t>>,
          <<"txn", "cancel", "confirm", t>>, <<"txn", "cancel", "abort", t>>,
          <<"txn", "complete", "confirm", t>>, <<"txn", "complete", "abort", t>>}
         : t \in TxnIds}

\* transaction_callback: action is data[1] and the id is data[2] (0-based);
\* the branches are tried in the order of the source, so "cancel" and
\* "complete" stop at the branch that shows the question.
TransactionCallbackStep(data, uid) ==
    LET action == data[2]
        transaction_id == data[3]
        t == get_transaction(TH, transaction_id)
    IN IF t.status = "absent" THEN Reply("transaction_callback", TH, transaction_id, uid, "not_found")
       ELSE IF action = "fund" THEN Reply("transaction_callback", TH, transaction_id, uid, "instructions")
       ELSE IF action = "cancel" THEN Reply("transaction_callback", TH, transaction_id, uid, "question")
       ELSE IF action = "confirm"
            THEN \E row \in Rows(LAMBDA b : confirm_transaction(t, uid, b)) :
                 LET r == confirm_transaction(t, uid, row)
                 IN Commit("confirm_transaction", TH,
                           transaction_id, uid, "none", r.txn,
                           disputes[TH][transaction_id], r.ret)
            ELSE Reply("transaction_callback", TH, transaction_id, uid, "question")

TransactionCallback ==
  \E data \in CallbackData, uid \in Users : TransactionCallbackStep(data, uid)

\* /dispute ... evidence: dispute_evidence calls open_dispute for the
\* transaction the conversation was started for.
DisputeEvidence ==
  \E tid \in TxnIds, uid \in Users :
    \E row \in Rows(LAMBDA b : open_dispute(transactions[DH][tid], disputes[DH][tid], uid, b)) :
    LET r == open_dispute(transactions[DH][tid], disputes[DH][tid], uid, row)
    IN Commit("open_dispute", DH, tid, uid, "none",
              r.txn, r.disp, r.ret)

\* /resolve <id> <resolution>
ResolveDisputeCommand ==
  \E tid \in TxnIds, uid \in Users, res \in Resolutions, row1 \in BOOLEAN :
    LET t == get_transaction(DH, tid)
    IN IF ~get_user(uid, row1) THEN Reply("resolve_dispute_command", DH, tid, uid, "register_first")
       ELSE IF res \notin {"buyer", "seller", "refund"} THEN Reply("resolve_dispute_command", DH, tid, uid, "invalid_resolution")
       ELSE IF t.status = "absent" THEN Reply("resolve_dispute_command", DH, tid, uid, "not_found")
       ELSE IF t.status # DISPUTED THEN Reply("resolve_dispute_command", DH, tid, uid, "wrong_status")
       ELSE IF uid # t.seller_id /\ uid # t.buyer_id THEN Reply("resolve_dispute_command", DH, tid, uid, "no_access")
       ELSE \E row2 \in BOOLEAN :
            LET r == resolve_dispute(t, disputes[DH][tid], res, row2)
            IN Commit("resolve_dispute", DH, tid, uid, res,
                      r.txn, r.disp, r.ret)

\* ------------------------------------------------------ creation flow fee
\* Money in the creation flow is counted in units of 0.00001, so that the
\* fee of a whole number of cents is a whole number of units.  The float
\* results of the source differ from these exact values by less than one
\* unit.

\* config.TRANSACTION_FEE_PERCENTAGE = 2.5, as a fraction.
TRANSACTION_FEE_PERCENTAGE == [num |-> 25, den |-> 10]

\* transaction_amount: rejects an amount that is not positive or is above
\* 10000, else saves the amount and the fee in conv_data.  The fee is
\* amount * (TRANSACTION_FEE_PERCENTAGE / 100); the division is done first
\* here, which is exact for the whole cents of AmountInputs.
transaction_amount(amount) ==
  IF amount <= 0 \/ amount > 10000 * 100000
  THEN [ok |-> FALSE, amount |-> 0, fee |-> 0]
  ELSE [ok |-> TRUE, amount |-> amount,
        fee |-> (amount \div (TRANSACTION_FEE_PERCENTAGE.den * 100))
                  * TRANSACTION_FEE_PERCENTAGE.num]

\* Transaction.total_amount
total_amount(t) == t.amount + t.fee

\* Amounts a seller types: whole cents, and the two sides of the limit.
AmountInputs ==
  {c * 1000 : c \in 0..MaxAmountCents} \cup {-1000, 10000 * 100000, 10000 * 100000 + 1000}

\* /new ... amount ... "Confirm", then a read of the Transaction built from
\* conv_data.
TransactionAmount ==
  \E amount \in AmountInputs :
    LET data == transaction_amount(amount)
    IN /\ pure.fn = "none"
       /\ pure' = [fn |-> "transaction_amount", args |-> <<amount>>,
                   out |-> [ok |-> data.ok, amount |-> data.amount, fee |-> data.fee,
                            total_amount |-> total_amount(data)]]
       /\ UNCHANGED <<transactions, disputes, last, moderators, dispute_rows, calls, trust_vars>>

\* ---------------------------------------- DisputeSystem: pure functions
\* Dispute amounts are counted in units of 0.0001.

\* Mutant of _calculate_priority: the dispute type is not consulted.
_calculate_priority_amount_only(amount, dispute_type) ==
  IF amount >= 1000 THEN "urgent"
  ELSE IF amount >= 500 THEN "high"
  ELSE "normal"

\* Mutant of _calculate_priority: the first threshold is exclusive.
_calculate_priority_strict(amount, dispute_type) ==
  IF amount > 1000 THEN "urgent"
  ELSE IF amount >= 500 THEN "high"
  ELSE IF dispute_type \in {PAYMENT_NOT_RECEIVED, SERVICE_NOT_DELIVERED} THEN "high"
  ELSE "normal"

_calculate_priority(amount, dispute_type) ==
  IF amount >= 1000 THEN "urgent"
  ELSE IF amount >= 500 THEN "high"
  ELSE IF dispute_type \in {PAYMENT_NOT_RECEIVED, SERVICE_NOT_DELIVERED} THEN "high"
  ELSE "normal"

CalculatePriority ==
  \E amount \in 0..MaxDisputeAmount, dispute_type \in DisputeTypes :
    /\ pure.fn = "none"
    /\ pure' = [fn |-> "_calculate_priority", args |-> <<amount, dispute_type>>,
                out |-> _calculate_priority(amount, dispute_type)]
    /\ UNCHANGED <<transactions, disputes, last, moderators, dispute_rows, calls, trust_vars>>

\* Mutant of eligible: a moderator at its maximum passes the filter.
eligible_at_limit(mod) ==
  mod.is_active /\ mod.is_available /\ mod.current_case_load <= mod.max_case_load

\* The rows the filter of _assign_moderator lets through.
eligible(mod) ==
  mod.is_active /\ mod.is_available /\ mod.current_case_load < mod.max_case_load

\* The sort key of _assign_moderator and the order of Python tuples.
sort_key(mod) == <<mod.current_case_load, IF mod.role_level # "admin" THEN 1 ELSE 0>>

key_less(a, b) == a[1] < b[1] \/ (a[1] = b[1] /\ a[2] < b[2])

\* Mutant of _assign_moderator: the sort is on the case load alone.
_assign_moderator_by_load_only(dispute_type, priority, table, order) ==
  LET available_mods == SelectSeq(order, LAMBDA m : eligible(table[m]))
      n == Len(available_mods)
      specialists == {i \in 1..n : contains(lower(dispute_type),
                                            lower(table[available_mods[i]].specialization))}
      load(i) == table[available_mods[i]].current_case_load
  IN IF n = 0 THEN NULL
     ELSE IF specialists # {}
          THEN available_mods[CHOOSE i \in specialists : \A j \in specialists : i <= j]
          ELSE available_mods[CHOOSE i \in 1..n :
                                /\ \A j \in 1..n : load(i) <= load(j)
                                /\ \A j \in 1..(i - 1) : load(j) # load(i)]

\* _assign_moderator on the rows of table, which the query returns in the
\* order given (the query has no ORDER BY).  The loop takes the first row
\* whose specialization contains the dispute type; list.sort is stable, so
\* the first row of the sorted list is the first row with the least key.
_assign_moderator(dispute_type, priority, table, order) ==
  LET available_mods == SelectSeq(order, LAMBDA m : eligible(table[m]))
      n == Len(available_mods)
      specialists == {i \in 1..n : contains(lower(dispute_type),
                                            lower(table[available_mods[i]].specialization))}
      key(i) == sort_key(table[available_mods[i]])
  IN IF n = 0 THEN NULL
     ELSE IF specialists # {}
          THEN available_mods[CHOOSE i \in specialists : \A j \in specialists : i <= j]
          ELSE available_mods[CHOOSE i \in 1..n :
                                /\ \A j \in 1..n : ~key_less(key(j), key(i))
                                /\ \A j \in 1..(i - 1) : key(j) # key(i)]

\* The orders in which a query may return the rows with the ids in S.
Orders(S) ==
  {o \in [1..Cardinality(S) -> S] : \A i, j \in 1..Cardinality(S) : o[i] = o[j] => i = j}

\* The moderator tables with case loads as calls leave them.
LoadedTables ==
  UNION {{[m \in DOMAIN t |-> [t[m] EXCEPT !.current_case_load = l[m]]] :
            l \in [DOMAIN t -> {0, 1, 2}]} : t \in ModeratorTables}

AssignModerator ==
  \E table \in LoadedTables, dispute_type \in DisputeTypes :
    \E order \in Orders(DOMAIN table) :
      /\ pure.fn = "none"
      /\ pure' = [fn |-> "_assign_moderator", args |-> <<dispute_type, table, order>>,
                  out |-> _assign_moderator(dispute_type, "normal", table, order)]
      /\ UNCHANGED <<transactions, disputes, last, moderators, dispute_rows, calls, trust_vars>>

\* ------------------------------------------- DisputeSystem: the two calls
\* A call is a sequence of steps, one for each read of the database and
\* each commit; calls[p] holds what the call has read.  session.commit()
\* expires the objects of the session, so an attribute read after a commit
\* is a new read of the row.


\* open_dispute up to the commit inside _add_system_message: the priority,
\* the moderator (the filter reads the case loads), and the Dispute row,
\* which that commit writes.  Without a moderator the call ends here.
OpenAssign(p) ==
  /\ calls[p].pc = "idle"
  /\ \E d \in DisputeIds : dispute_rows[d].status = "absent"
  /\ \E amount \in {100, 500, 1000}, dispute_type \in DisputeTypes, transaction_id \in TxnIds :
       \E order \in Orders(DOMAIN moderators) :
         LET priority == _calculate_priority(amount, dispute_type)
             assigned_moderator == _assign_moderator(dispute_type, priority, moderators, order)
             d == CHOOSE i \in DisputeIds :
                    /\ dispute_rows[i].status = "absent"
                    /\ \A j \in 1..(i - 1) : dispute_rows[j].status # "absent"
         IN /\ dispute_rows' = [dispute_rows EXCEPT ![d] =
                                  [status |-> "open",
                                   transaction_id |-> transaction_id,
                                   assigned_moderator |-> assigned_moderator,
                                   priority |-> priority]]
            /\ calls' = [calls EXCEPT ![p] =
                           IF assigned_moderator = NULL THEN Idle
                           ELSE [Idle EXCEPT !.pc = "open_assigned", !.dispute = d,
                                             !.moderator = assigned_moderator,
                                             !.seen = moderators[assigned_moderator].current_case_load]]
  /\ UNCHANGED <<transactions, disputes, last, moderators, pure, trust_vars>>

\* assigned_moderator.current_case_load += 1, the read: the row is loaded
\* again, because the commit of the message expired it.
OpenLoad(p) ==
  /\ calls[p].pc = "open_assigned"
  /\ calls' = [calls EXCEPT ![p].pc = "open_loaded",
                            ![p].load = moderators[calls[p].moderator].current_case_load]
  /\ UNCHANGED <<transactions, disputes, last, moderators, dispute_rows, pure, trust_vars>>

\* ... the write, and the commit that ends open_dispute.
OpenCommit(p) ==
  /\ calls[p].pc = "open_loaded"
  /\ moderators' = [moderators EXCEPT ![calls[p].moderator].current_case_load =
                                        calls[p].load + 1]
  /\ calls' = [calls EXCEPT ![p] = Idle]
  /\ UNCHANGED <<transactions, disputes, last, dispute_rows, pure, trust_vars>>

\* Mutant of ResolveMark: the message is added without a commit, so the
\* status of the dispute waits for the commit that ends the call.
ResolveMark_without_commit(p) ==
  /\ calls[p].pc = "idle"
  /\ \E dispute_id \in DisputeIds, moderator_id \in DOMAIN moderators \cup {"999"} :
       IF dispute_rows[dispute_id].status = "absent"
       THEN UNCHANGED <<dispute_rows, calls>>
       ELSE /\ UNCHANGED dispute_rows
            /\ IF moderator_id \notin DOMAIN moderators
               THEN calls' = [calls EXCEPT ![p] = Idle]
               ELSE /\ moderators[moderator_id].cases_resolved < MaxResolved
                    /\ calls' = [calls EXCEPT ![p] =
                                   [Idle EXCEPT !.pc = "resolve_marked", !.dispute = dispute_id,
                                                !.moderator = moderator_id,
                                                !.load = moderators[moderator_id].current_case_load,
                                                !.resolved = moderators[moderator_id].cases_resolved]]
  /\ UNCHANGED <<transactions, disputes, last, moderators, pure, trust_vars>>

\* resolve_dispute up to the query for the moderator: None for an id
\* without a row; else the status is set to resolved, whatever it was, and
\* the commit inside _add_system_message writes it; then the Moderator row
\* is read.  Without such a row the call ends here.
ResolveMark(p) ==
  /\ calls[p].pc = "idle"
  /\ \E dispute_id \in DisputeIds, moderator_id \in DOMAIN moderators \cup {"999"} :
       IF dispute_rows[dispute_id].status = "absent"
       THEN UNCHANGED <<dispute_rows, calls>>
       ELSE /\ dispute_rows' = [dispute_rows EXCEPT ![dispute_id].status = "resolved"]
            /\ IF moderator_id \notin DOMAIN moderators
               THEN calls' = [calls EXCEPT ![p] = Idle]
               ELSE /\ moderators[moderator_id].cases_resolved < MaxResolved
                    /\ calls' = [calls EXCEPT ![p] =
                                   [Idle EXCEPT !.pc = "resolve_marked", !.dispute = dispute_id,
                                                !.moderator = moderator_id,
                                                !.load = moderators[moderator_id].current_case_load,
                                                !.resolved = moderators[moderator_id].cases_resolved]]
  /\ UNCHANGED <<transactions, disputes, last, moderators, pure, trust_vars>>

\* The moderator's statistics and the commit that ends resolve_dispute.
ResolveCommit(p) ==
  /\ calls[p].pc = "resolve_marked"
  /\ moderators' = [moderators EXCEPT
                      ![calls[p].moderator].current_case_load = calls[p].load - 1,
                      ![calls[p].moderator].cases_resolved = calls[p].resolved + 1]
  /\ calls' = [calls EXCEPT ![p] = Idle]
  /\ UNCHANGED <<transactions, disputes, last, dispute_rows, pure, trust_vars>>

\* The process of a call stops between two steps; what the call has
\* committed stays, and the process makes no further call.
Crash(p) ==
  /\ calls[p].pc \in {"open_assigned", "open_loaded", "resolve_marked"}
  /\ calls' = [calls EXCEPT ![p].pc = IF calls[p].pc = "resolve_marked"
                                      THEN "resolve_crashed" ELSE "open_crashed"]
  /\ UNCHANGED <<transactions, disputes, last, moderators, dispute_rows, pure, trust_vars>>

\* ------------------------------------------ DisputeSystem: the active queue
\* The priority column is a String(10); these are the characters of the
\* values _calculate_priority stores.
PriorityText ==
  [urgent |-> <<"u", "r", "g", "e", "n", "t">>,
   high |-> <<"h", "i", "g", "h">>,
   normal |-> <<"n", "o", "r", "m", "a", "l">>]


\* The place of a lower-case letter in the collation of the database.
char_rank(c) == CHOOSE i \in 1..Len(LowerCase) : LowerCase[i] = c

\* a < b for two strings of lower-case letters, as ORDER BY compares them.
RECURSIVE str_less(_, _)
str_less(a, b) ==
  IF b = <<>> THEN FALSE
  ELSE IF a = <<>> THEN TRUE
  ELSE IF Head(a) # Head(b) THEN char_rank(Head(a)) < char_rank(Head(b))
  ELSE str_less(Tail(a), Tail(b))

\* Row a is placed before row b by
\* order_by(Dispute.priority.desc(), Dispute.created_at.asc()).
ordered_before(a, b) ==
  \/ str_less(PriorityText[b.priority], PriorityText[a.priority])
  \/ a.priority = b.priority /\ a.created_at < b.created_at

ACTIVE_STATUSES == {"open", "investigating", "awaiting_response"}

\* get_active_disputes on a disputes table: the ids of the rows returned,
\* in the order returned.
get_active_disputes(table) ==
  LET active == {d \in DOMAIN table : table[d].status \in ACTIVE_STATUSES}
  IN CHOOSE result \in [1..Cardinality(active) -> active] :
       /\ \A d \in active : \E i \in DOMAIN result : result[i] = d
       /\ \A i, j \in DOMAIN result :
            i < j => ordered_before(table[result[i]], table[result[j]])

\* The disputes tables the calls of open_dispute and resolve_dispute leave:
\* rows with a status written by the program, any priority, and created_at
\* values that differ, in any order of the ids.
DisputeTables ==
  UNION {
    UNION {
      {[d \in 1..n |-> [status |-> st[d], priority |-> pr[d], created_at |-> at[d]]] :
         st \in [1..n -> {"open", "resolved"}], pr \in [1..n -> DOMAIN PriorityText]} :
      at \in {f \in [1..n -> 1..n] : \A i, j \in 1..n : i # j => f[i] # f[j]}} :
    n \in 0..MaxDisputes}

GetActiveDisputes ==
  /\ pure.fn = "none"
  /\ \E table \in DisputeTables :
       pure' = [fn |-> "get_active_disputes", args |-> <<table>>,
                out |-> get_active_disputes(table)]
  /\ UNCHANGED <<transactions, disputes, last, moderators, dispute_rows, calls, trust_vars>>

\* ------------------------------------------------------------ validators
\* The table lists for each current status the statuses it may be
\* followed by.  The result is the pair (valid, error message); the
\* message is absent when the transition is valid and names the two
\* statuses otherwise.
validate_transaction_status_transition(current_status, new_status) ==
  LET valid_transitions ==
        [s \in TransactionStatus |->
           CASE s = CREATED   -> {FUNDED, CANCELLED}
             [] s = FUNDED    -> {CONFIRMED, DISPUTED, REFUNDED}
             [] s = CONFIRMED -> {COMPLETED, DISPUTED}
             [] s = DISPUTED  -> {COMPLETED, REFUNDED, CANCELLED}
             [] OTHER         -> {}]
  IN IF new_status \in valid_transitions[current_status]
     THEN [valid |-> TRUE, error |-> <<>>]
     ELSE [valid |-> FALSE, error |-> <<current_status, new_status>>]

ValidateTransactionStatusTransition ==
  /\ pure.fn = "none"
  /\ \E current_status \in TransactionStatus, new_status \in TransactionStatus :
       pure' = [fn |-> "validate_transaction_status_transition",
                args |-> <<current_status, new_status>>,
                out |-> validate_transaction_status_transition(current_status, new_status)]
  /\ UNCHANGED <<transactions, disputes, last, moderators, dispute_rows, calls, trust_vars>>

\* ----------------------------------------------------------------- Wallet
\* Amounts are whole numbers of the smallest unit of the currency.  Of a
\* WalletTransaction the id, the amount and the direction are kept; the
\* transaction_id, the type and the timestamps are written and never read.

\* The result of a call is whether it raised and the wallet it leaves.
deposit(wallet, amount) ==
  IF amount <= 0
  THEN [raised |-> TRUE, wallet |-> wallet]
  ELSE [raised |-> FALSE,
        wallet |-> [balance |-> wallet.balance + amount,
                    transactions |->
                      Append(wallet.transactions,
                             [id |-> Len(wallet.transactions) + 1,
                              amount |-> amount,
                              direction |-> "in"])]]

\* Mutant of withdraw: the amount is not compared with the balance.
withdraw_unguarded(wallet, amount) ==
  IF amount <= 0
  THEN [raised |-> TRUE, wallet |-> wallet]
  ELSE [raised |-> FALSE,
        wallet |-> [balance |-> wallet.balance - amount,
                    transactions |->
                      Append(wallet.transactions,
                             [id |-> Len(wallet.transactions) + 1,
                              amount |-> amount,
                              direction |-> "out"])]]

withdraw(wallet, amount) ==
  IF amount <= 0
  THEN [raised |-> TRUE, wallet |-> wallet]
  ELSE IF amount > wallet.balance
  THEN [raised |-> TRUE, wallet |-> wallet]
  ELSE [raised |-> FALSE,
        wallet |-> [balance |-> wallet.balance - amount,
                    transactions |->
                      Append(wallet.transactions,
                             [id |-> Len(wallet.transactions) + 1,
                              amount |-> amount,
                              direction |-> "out"])]]

\* The wallet after the calls made so far: a new Wallet, with balance 0.0
\* and an empty list, or pure.out of the last call.
TheWallet ==
  IF pure.fn = "none" THEN [balance |-> 0, transactions |-> <<>>]
  ELSE pure.out.wallet

Deposit ==
  /\ pure.fn \in {"none", "deposit", "withdraw"}
  /\ Len(TheWallet.transactions) < MaxWalletTransactions
  /\ \E amount \in -1 .. MaxWalletAmount :
       pure' = [fn |-> "deposit", args |-> <<amount>>,
                out |-> deposit(TheWallet, amount)]
  /\ UNCHANGED <<transactions, disputes, last, moderators, dispute_rows, calls, trust_vars>>

Withdraw ==
  /\ pure.fn \in {"none", "deposit", "withdraw"}
  /\ Len(TheWallet.transactions) < MaxWalletTransactions
  /\ \E amount \in -1 .. MaxWalletAmount :
       pure' = [fn |-> "withdraw", args |-> <<amount>>,
                out |-> withdraw(TheWallet, amount)]
  /\ UNCHANGED <<transactions, disputes, last, moderators, dispute_rows, calls, trust_vars>>

WalletCalls ==
  \/ Deposit
  \/ Withdraw

\* One wallet from its construction, its calls one after another.
SpecWallet == Init /\ [][WalletCalls]_vars

\* ------------------------------------------------- numbers with fractions
\* A float is the fraction it stands for, in lowest terms with a positive
\* denominator; the arithmetic is exact, so what is compared is what the
\* expressions of the code denote, without the rounding of the last bit.
RECURSIVE gcd(_, _)
gcd(a, b) == IF b = 0 THEN a ELSE gcd(b, a % b)

abs(a) == IF a < 0 THEN -a ELSE a

Frac(n, d) ==
  LET g == gcd(abs(n), abs(d))
      sg == IF d < 0 THEN -1 ELSE 1
  IN [n |-> sg * (n \div g), d |-> sg * (d \div g)]

Whole(k) == [n |-> k, d |-> 1]
add(x, y) == Frac(x.n * y.d + y.n * x.d, x.d * y.d)
mul(x, y) == Frac(x.n * y.n, x.d * y.d)
div(x, y) == Frac(x.n * y.d, x.d * y.n)
le(x, y) == x.n * y.d <= y.n * x.d
lt(x, y) == x.n * y.d < y.n * x.d
fmin(x, y) == IF lt(y, x) THEN y ELSE x
fmax(x, y) == IF lt(x, y) THEN y ELSE x

\* ------------------------------- DisputeSystem: resolution time statistics

\* Mutant of resolution_stats: the old average is weighted as one sample.
resolution_stats_halved(stats, resolution_hours) ==
  LET cases_resolved == stats.cases_resolved + 1
  IN [cases_resolved |-> cases_resolved,
      average_resolution_time |->
        IF cases_resolved = 1 THEN resolution_hours
        ELSE div(add(stats.average_resolution_time, resolution_hours), Whole(2))]

\* resolve_dispute, "Update moderator stats": the count and the average
\* of a Moderator row after a resolution that took resolution_hours.
resolution_stats(stats, resolution_hours) ==
  LET cases_resolved == stats.cases_resolved + 1
  IN [cases_resolved |-> cases_resolved,
      average_resolution_time |->
        IF cases_resolved = 1 THEN resolution_hours
        ELSE div(add(mul(stats.average_resolution_time, Whole(cases_resolved - 1)),
                     resolution_hours),
                 Whole(cases_resolved))]

\* The counters and the rate of get_moderator_stats for a stored row; the
\* other entries of the result are copies of columns.
get_moderator_stats(moderator) ==
  [cases_handled |-> moderator.cases_handled,
   cases_resolved |-> moderator.cases_resolved,
   success_rate |->
     mul(div(Whole(moderator.cases_resolved),
             Whole(IF moderator.cases_handled > 1 THEN moderator.cases_handled ELSE 1)),
         Whole(100))]

\* One more resolve_dispute with the id of the same moderator, whose row
\* had the statistics columns of _initialize_moderators and the column
\* defaults (cases_resolved = 0) before the first; pure.args are the
\* resolution times so far, the hours between created_at and resolved_at.
ResolveStats ==
  \E resolution_hours \in {Whole(0), Whole(2), Whole(4), Whole(6), Frac(1, 2)} :
    LET stats == IF pure.fn = "none"
                 THEN [cases_resolved |-> 0, average_resolution_time |-> Whole(0)]
                 ELSE pure.out
    IN /\ pure.fn \in {"none", "resolve_dispute"}
       /\ Len(pure.args) < MaxResolutions
       /\ pure' = [fn |-> "resolve_dispute",
                   args |-> Append(pure.args, resolution_hours),
                   out |-> resolution_stats(stats, resolution_hours)]
       /\ UNCHANGED <<transactions, disputes, last, moderators, dispute_rows, calls, trust_vars>>

\* ------------------------------------------------------------ TrustSystem
\* Time is counted in whole days: (datetime.now() - user.join_date).days
\* is the difference of two day numbers.

\* UserProfile(telegram_id=...) with the defaults of its columns, stored at
\* the time now.  username, first_name and last_active are left out: they
\* are written and no rule reads them.
NewProfile(now_) ==
  [exists |-> TRUE,
   trust_score |-> Whole(0),
   trust_level |-> "unverified",
   total_trades |-> 0,
   successful_trades |-> 0,
   phone_verified |-> FALSE,
   email_verified |-> FALSE,
   id_verified |-> FALSE,
   join_date |-> now_,
   response_time_avg |-> Whole(0),
   positive_feedback |-> 0,
   neutral_feedback |-> 0,
   negative_feedback |-> 0]

\* Mutant of _get_trust_level: a score on a threshold gets the tier below.
_get_trust_level_exclusive(score) ==
  IF lt(Whole(90), score) THEN "diamond"
  ELSE IF lt(Whole(80), score) THEN "platinum"
  ELSE IF lt(Whole(70), score) THEN "gold"
  ELSE IF lt(Whole(60), score) THEN "silver"
  ELSE IF lt(Whole(50), score) THEN "bronze"
  ELSE "unverified"

\* _get_trust_level
_get_trust_level(score) ==
  IF le(Whole(90), score) THEN "diamond"
  ELSE IF le(Whole(80), score) THEN "platinum"
  ELSE IF le(Whole(70), score) THEN "gold"
  ELSE IF le(Whole(60), score) THEN "silver"
  ELSE IF le(Whole(50), score) THEN "bronze"
  ELSE "unverified"

\* Mutant of trust_score_of: the sum is not capped.
trust_score_of_uncapped(user, now_) ==
  LET total_feedback == user.positive_feedback + user.neutral_feedback + user.negative_feedback
      days_active == now_ - user.join_date
      s1 == IF user.total_trades > 0
            THEN add(Whole(50), mul(Frac(user.successful_trades, user.total_trades), Whole(30)))
            ELSE Whole(50)
      s2 == IF total_feedback > 0
            THEN add(s1, mul(Frac(user.positive_feedback, total_feedback), Whole(25)))
            ELSE s1
      verification_score == (IF user.phone_verified THEN 7 ELSE 0)
                            + (IF user.email_verified THEN 7 ELSE 0)
                            + (IF user.id_verified THEN 6 ELSE 0)
      s3 == add(s2, Whole(verification_score))
      s4 == IF days_active > 0
            THEN add(s3, mul(fmin(Frac(days_active, 30), Whole(1)), Whole(15)))
            ELSE s3
      s5 == IF lt(Whole(0), user.response_time_avg)
            THEN add(s4, fmax(Whole(0), add(Whole(10), div(user.response_time_avg, Whole(-2)))))
            ELSE s4
  IN s5

\* calculate_trust_score, the value of score at "Update user's trust
\* score" for the row user read at the time now.
trust_score_of(user, now_) ==
  LET total_feedback == user.positive_feedback + user.neutral_feedback + user.negative_feedback
      days_active == now_ - user.join_date
      s1 == IF user.total_trades > 0
            THEN add(Whole(50), mul(Frac(user.successful_trades, user.total_trades), Whole(30)))
            ELSE Whole(50)
      s2 == IF total_feedback > 0
            THEN add(s1, mul(Frac(user.positive_feedback, total_feedback), Whole(25)))
            ELSE s1
      verification_score == (IF user.phone_verified THEN 7 ELSE 0)
                            + (IF user.email_verified THEN 7 ELSE 0)
                            + (IF user.id_verified THEN 6 ELSE 0)
      s3 == add(s2, Whole(verification_score))
      s4 == IF days_active > 0
            THEN add(s3, mul(fmin(Frac(days_active, 30), Whole(1)), Whole(15)))
            ELSE s3
      s5 == IF lt(Whole(0), user.response_time_avg)
            THEN add(s4, fmax(Whole(0), add(Whole(10), div(user.response_time_avg, Whole(-2)))))
            ELSE s4
  IN fmin(s5, Whole(100))

\* calculate_trust_score on the table profiles: what it returns and the
\* table it commits.
calculate_trust_score(profiles, user_id, now_) ==
  IF user_id \notin DOMAIN profiles \/ ~profiles[user_id].exists
  THEN [ret |-> Whole(0), profiles |-> profiles]
  ELSE LET score == trust_score_of(profiles[user_id], now_)
       IN [ret |-> score,
           profiles |-> [profiles EXCEPT ![user_id].trust_score = score,
                                         ![user_id].trust_level = _get_trust_level(score)]]

\* Mutant of _check_badges: a badge is inserted without the query for an
\* existing row.
_check_badges_always_inserts(profiles, badges, user_id) ==
  IF ~profiles[user_id].exists THEN badges
  ELSE LET user == profiles[user_id]
           total_feedback == user.positive_feedback + user.neutral_feedback
                             + user.negative_feedback
           badge_checks ==
             [b \in BadgeNames |->
                CASE b = "First Timer" -> user.total_trades >= 1
                  [] b = "Trusted Trader" -> user.total_trades >= 10
                  [] b = "Elite Trader" -> user.total_trades >= 50
                  [] b = "Fast Responder" ->
                       lt(Whole(0), user.response_time_avg) /\ lt(user.response_time_avg, Whole(2))
                  [] b = "Verified Pro" ->
                       user.phone_verified /\ user.email_verified /\ user.id_verified
                  [] b = "Customer Champion" ->
                       le(Frac(95, 100),
                          Frac(user.positive_feedback,
                               IF total_feedback > 1 THEN total_feedback ELSE 1))
                  [] OTHER -> FALSE]
       IN [badges EXCEPT ![user_id] =
             [b \in BadgeNames |->
                IF badge_checks[b] THEN badges[user_id][b] + 1 ELSE badges[user_id][b]]]

\* _check_badges: the user_badges table it commits; badges[u][b] is the
\* number of rows of user u with the badge type named b.
_check_badges(profiles, badges, user_id) ==
  IF ~profiles[user_id].exists THEN badges
  ELSE LET user == profiles[user_id]
           total_feedback == user.positive_feedback + user.neutral_feedback
                             + user.negative_feedback
           badge_checks ==
             [b \in BadgeNames |->
                CASE b = "First Timer" -> user.total_trades >= 1
                  [] b = "Trusted Trader" -> user.total_trades >= 10
                  [] b = "Elite Trader" -> user.total_trades >= 50
                  [] b = "Fast Responder" ->
                       lt(Whole(0), user.response_time_avg) /\ lt(user.response_time_avg, Whole(2))
                  [] b = "Verified Pro" ->
                       user.phone_verified /\ user.email_verified /\ user.id_verified
                  [] b = "Customer Champion" ->
                       le(Frac(95, 100),
                          Frac(user.positive_feedback,
                               IF total_feedback > 1 THEN total_feedback ELSE 1))
                  [] OTHER -> FALSE]
       IN [badges EXCEPT ![user_id] =
             [b \in BadgeNames |->
                IF badge_checks[b] /\ badges[user_id][b] = 0
                THEN 1 ELSE badges[user_id][b]]]

\* A row of user_profiles stored by get_or_create_user on the day 0 whose
\* verification flags an operator of the database has set since; no
\* function of TrustSystem writes them.
VerifiedProfile ==
  [NewProfile(0) EXCEPT !.phone_verified = TRUE, !.email_verified = TRUE,
                        !.id_verified = TRUE]

\* Construction on a database without profiles, or with a verified one.
InitTrust ==
  /\ InitOthers
  /\ moderators = default_moderators
  /\ user_profiles \in {[u \in Givers |-> NoProfile],
                        [u \in Givers |-> IF u \in TrustUsers THEN VerifiedProfile
                                          ELSE NoProfile]}
  /\ user_feedback = <<>>
  /\ user_badges = [u \in Givers |-> [b \in BadgeNames |-> 0]]
  /\ today = 0

\* get_or_create_user for an id without a row; with a row the call reads
\* and changes nothing.
GetOrCreateUser ==
  \E telegram_id \in TrustUsers :
    /\ ~user_profiles[telegram_id].exists
    /\ user_profiles' = [user_profiles EXCEPT ![telegram_id] = NewProfile(today)]
    /\ UNCHANGED <<user_feedback, user_badges, today, other_vars>>

\* The feedback type of a rating.
feedback_type_of(rating) ==
  IF rating >= 4 THEN "positive" ELSE IF rating >= 3 THEN "neutral" ELSE "negative"

\* add_feedback that finds no row for (trade_id, giver_id, receiver_id);
\* with such a row the call returns False and changes nothing.
AddFeedback ==
  \E trade_id \in TxnIds, giver_id \in Givers, receiver_id \in TrustUsers, rating \in Ratings :
    LET feedback_type == feedback_type_of(rating)
        receiver == user_profiles[receiver_id]
        counted ==
          IF ~receiver.exists THEN user_profiles
          ELSE IF feedback_type = "positive"
               THEN [user_profiles EXCEPT ![receiver_id].positive_feedback = @ + 1]
          ELSE IF feedback_type = "neutral"
               THEN [user_profiles EXCEPT ![receiver_id].neutral_feedback = @ + 1]
          ELSE [user_profiles EXCEPT ![receiver_id].negative_feedback = @ + 1]
        scored == calculate_trust_score(counted, receiver_id, today).profiles
    IN /\ ~\E i \in DOMAIN user_feedback :
            /\ user_feedback[i].trade_id = trade_id
            /\ user_feedback[i].giver_id = giver_id
            /\ user_feedback[i].receiver_id = receiver_id
       /\ user_feedback' = Append(user_feedback,
                                  [trade_id |-> trade_id, giver_id |-> giver_id,
                                   receiver_id |-> receiver_id,
                                   feedback_type |-> feedback_type])
       /\ user_profiles' = scored
       /\ user_badges' = _check_badges(scored, user_badges, receiver_id)
       /\ UNCHANGED <<today, other_vars>>

\* update_trade_completion for a user with a row; without one the call
\* changes nothing.
UpdateTradeCompletion ==
  \E user_id \in TrustUsers, successful \in BOOLEAN :
    LET user == user_profiles[user_id]
        counted == [user_profiles EXCEPT
                      ![user_id].total_trades = @ + 1,
                      ![user_id].successful_trades = IF successful THEN @ + 1 ELSE @]
        scored == calculate_trust_score(counted, user_id, today).profiles
    IN /\ user.exists
       /\ user.total_trades < MaxTrades
       /\ user_profiles' = scored
       /\ user_badges' = _check_badges(scored, user_badges, user_id)
       /\ UNCHANGED <<user_feedback, today, other_vars>>

\* calculate_trust_score called by itself.
CalculateTrustScore ==
  \E user_id \in TrustUsers :
    /\ user_profiles[user_id].exists
    /\ user_profiles' = calculate_trust_score(user_profiles, user_id, today).profiles
    /\ UNCHANGED <<user_feedback, user_badges, today, other_vars>>

\* _check_badges called by itself.
CheckBadges ==
  \E user_id \in TrustUsers :
    /\ user_profiles[user_id].exists
    /\ user_badges' = _check_badges(user_profiles, user_badges, user_id)
    /\ UNCHANGED <<user_profiles, user_feedback, today, other_vars>>

\* Days pass between two calls.
Tick ==
  /\ today < MaxDays
  /\ today' = today + DayStep
  /\ UNCHANGED <<user_profiles, user_feedback, user_badges, other_vars>>

\* Mutant of add_feedback: the query for an existing row is left out.
add_feedback_unchecked(trade_id, giver_id, receiver_id, rating) ==
  LET feedback_type == feedback_type_of(rating)
      receiver == user_profiles[receiver_id]
      counted ==
        IF ~receiver.exists THEN user_profiles
        ELSE IF feedback_type = "positive"
             THEN [user_profiles EXCEPT ![receiver_id].positive_feedback = @ + 1]
        ELSE IF feedback_type = "neutral"
             THEN [user_profiles EXCEPT ![receiver_id].neutral_feedback = @ + 1]
        ELSE [user_profiles EXCEPT ![receiver_id].negative_feedback = @ + 1]
      scored == calculate_trust_score(counted, receiver_id, today).profiles
  IN [ret |-> TRUE,
      user_feedback |-> Append(user_feedback,
                               [trade_id |-> trade_id, giver_id |-> giver_id,
                                receiver_id |-> receiver_id,
                                feedback_type |-> feedback_type]),
      user_profiles |-> scored,
      user_badges |-> _check_badges(scored, user_badges, receiver_id)]

\* Mutant of add_feedback: the score and the badges of the giver are
\* recomputed too.
add_feedback_both(trade_id, giver_id, receiver_id, rating) ==
  LET feedback_type == feedback_type_of(rating)
      receiver == user_profiles[receiver_id]
      existing == \E i \in DOMAIN user_feedback :
                    /\ user_feedback[i].trade_id = trade_id
                    /\ user_feedback[i].giver_id = giver_id
                    /\ user_feedback[i].receiver_id = receiver_id
      counted ==
        IF ~receiver.exists THEN user_profiles
        ELSE IF feedback_type = "positive"
             THEN [user_profiles EXCEPT ![receiver_id].positive_feedback = @ + 1]
        ELSE IF feedback_type = "neutral"
             THEN [user_profiles EXCEPT ![receiver_id].neutral_feedback = @ + 1]
        ELSE [user_profiles EXCEPT ![receiver_id].negative_feedback = @ + 1]
      scored == calculate_trust_score(
                  calculate_trust_score(counted, receiver_id, today).profiles,
                  giver_id, today).profiles
  IN IF existing
     THEN [ret |-> FALSE, user_feedback |-> user_feedback,
           user_profiles |-> user_profiles, user_badges |-> user_badges]
     ELSE [ret |-> TRUE,
           user_feedback |-> Append(user_feedback,
                                    [trade_id |-> trade_id, giver_id |-> giver_id,
                                     receiver_id |-> receiver_id,
                                     feedback_type |-> feedback_type]),
           user_profiles |-> scored,
           user_badges |-> _check_badges(scored, user_badges, receiver_id)]

\* add_feedback on the tables of the state: what it returns and the tables
\* it leaves.
add_feedback(trade_id, giver_id, receiver_id, rating) ==
  LET feedback_type == feedback_type_of(rating)
      receiver == user_profiles[receiver_id]
      existing == \E i \in DOMAIN user_feedback :
                    /\ user_feedback[i].trade_id = trade_id
                    /\ user_feedback[i].giver_id = giver_id
                    /\ user_feedback[i].receiver_id = receiver_id
      counted ==
        IF ~receiver.exists THEN user_profiles
        ELSE IF feedback_type = "positive"
             THEN [user_profiles EXCEPT ![receiver_id].positive_feedback = @ + 1]
        ELSE IF feedback_type = "neutral"
             THEN [user_profiles EXCEPT ![receiver_id].neutral_feedback = @ + 1]
        ELSE [user_profiles EXCEPT ![receiver_id].negative_feedback = @ + 1]
      scored == calculate_trust_score(counted, receiver_id, today).profiles
  IN IF existing
     THEN [ret |-> FALSE, user_feedback |-> user_feedback,
           user_profiles |-> user_profiles, user_badges |-> user_badges]
     ELSE [ret |-> TRUE,
           user_feedback |-> Append(user_feedback,
                                    [trade_id |-> trade_id, giver_id |-> giver_id,
                                     receiver_id |-> receiver_id,
                                     feedback_type |-> feedback_type]),
           user_profiles |-> scored,
           user_badges |-> _check_badges(scored, user_badges, receiver_id)]

\* One call of add_feedback with these arguments, recorded in pure with
\* the row it asked for and what it returned.
AddFeedbackStep(trade_id, giver_id, receiver_id, rating) ==
  LET call == add_feedback(trade_id, giver_id, receiver_id, rating)
  IN /\ pure' = [fn |-> "add_feedback",
                 args |-> <<trade_id, giver_id, receiver_id>>,
                 out |-> call.ret]
     /\ user_feedback' = call.user_feedback
     /\ user_profiles' = call.user_profiles
     /\ user_badges' = call.user_badges
     /\ UNCHANGED <<today, transactions, disputes, last, moderators, dispute_rows, calls>>

\* add_feedback between any two of the ids, for any trade and rating.
AddFeedbackCall ==
  \E trade_id \in TxnIds, giver_id \in Givers, receiver_id \in Givers, rating \in Ratings :
    AddFeedbackStep(trade_id, giver_id, receiver_id, rating)

\* get_or_create_user for any of the ids that has no row.
GetOrCreateGiver ==
  \E telegram_id \in Givers :
    /\ ~user_profiles[telegram_id].exists
    /\ user_profiles' = [user_profiles EXCEPT ![telegram_id] = NewProfile(today)]
    /\ UNCHANGED <<user_feedback, user_badges, today, other_vars>>

\* Rows of user_profiles a call of calculate_trust_score may find: the
\* counters after a few trades and feedbacks, and every value of the
\* verification flags and of response_time_avg, which no function of
\* TrustSystem writes and an operator of the database may.
ProfileInputs ==
  {[NewProfile(0) EXCEPT !.total_trades = t, !.successful_trades = st,
                         !.positive_feedback = fb[1], !.neutral_feedback = fb[2],
                         !.negative_feedback = fb[3],
                         !.phone_verified = v[1], !.email_verified = v[2],
                         !.id_verified = v[3], !.response_time_avg = rt] :
     t \in 0..2, st \in 0..2, fb \in [1..3 -> 0..1], v \in [1..3 -> BOOLEAN],
     rt \in {Whole(0), Whole(1), Whole(20), Whole(30)}}

\* calculate_trust_score(user_id) at the day first and again at the day
\* second, days counted from join_date, with no other call between the two.
CalculateTrustScoreTwice ==
  /\ pure.fn = "none"
  /\ \E user \in ProfileInputs, first, second \in {0, 1, 15, 30, 45} :
       LET one == calculate_trust_score([u \in TrustUsers |-> user], "u1", first)
           two == calculate_trust_score(one.profiles, "u1", second)
       IN /\ user.successful_trades <= user.total_trades
          /\ first <= second
          /\ pure' = [fn |-> "calculate_trust_score", args |-> <<user, first, second>>,
                      out |-> <<[ret |-> one.ret, user |-> one.profiles["u1"]],
                                [ret |-> two.ret, user |-> two.profiles["u1"]]>>]
  /\ UNCHANGED <<transactions, disputes, last, moderators, dispute_rows, calls, trust_vars>>

\* ---------------------------------------------------------- specifications
Handlers ==
  \/ NewTransaction
  \/ SendPayment
  \/ ConfirmPayment
  \/ PaymentCallbackSent
  \/ CancelCommand
  \/ CompleteCommand
  \/ TransactionCallback
  \/ DisputeEvidence
  \/ ResolveDisputeCommand

\* The handlers, and the methods of EscrowService called by any caller with
\* any arguments on any of the EscrowService objects.
Next ==
  \/ NewTransaction
  \/ SendPayment
  \/ ConfirmPayment
  \/ PaymentCallbackSent
  \/ CancelCommand
  \/ CompleteCommand
  \/ TransactionCallback
  \/ DisputeEvidence
  \/ ResolveDisputeCommand
  \/ CreateTransaction
  \/ CancelTransaction
  \/ ConfirmTransaction
  \/ CompleteTransaction
  \/ OpenDispute
  \/ ResolveDispute

Spec == Init /\ [][Next]_vars

\* The handlers alone: the program as its modules wire it.
SpecApp == Init /\ [][Handlers]_vars

\* The functions that read and write no store, called with any arguments.
\* What such a call returns does not depend on the calls before it, so a
\* behaviour makes one call.
SpecPure ==
  Init /\ [][\/ TransactionAmount
             \/ CalculatePriority
             \/ AssignModerator
             \/ GetActiveDisputes
             \/ ValidateTransactionStatusTransition]_vars

\* calculate_trust_score on any profile at any two times.
SpecTrustScore == Init /\ [][CalculateTrustScoreTwice]_vars

\* The steps of the calls of DisputeSystem made by caller p.
DisputeCalls(p) ==
  \/ OpenAssign(p)
  \/ OpenLoad(p)
  \/ OpenCommit(p)
  \/ ResolveMark(p)
  \/ ResolveCommit(p)

\* One caller: every call ends before the next begins.
SpecDisputeSystem == InitModerators /\ [][DisputeCalls(1)]_vars

\* Callers that run at the same time and may stop at any step.
DisputeRaces ==
  \E p \in Procs :
    \/ DisputeCalls(p)
    \/ Crash(p)

SpecDisputeRaces == InitSingle /\ [][DisputeRaces]_vars

\* The resolutions of one moderator, one after another.
SpecResolutions == Init /\ [][ResolveStats]_vars

\* The calls of TrustSystem, one after another, as time passes.
SpecTrust ==
  InitTrust /\ [][\/ GetOrCreateUser
                  \/ AddFeedback
                  \/ UpdateTradeCompletion
                  \/ CalculateTrustScore
                  \/ CheckBadges
                  \/ Tick]_vars

\* Feedback between two users, each with or without a profile.
SpecFeedback == Init /\ [][GetOrCreateGiver \/ AddFeedbackCall]_vars

\* ----------------------------------------------------------------- claims
\* The call recorded in last' is the call of the step; these name the
\* objects it was made on, before and after.
PreT == get_transaction(last'.es, last'.tid)
PreD == get_dispute(last'.es, last'.tid)
PostT == IF last'.tid \in TxnIds THEN transactions'[last'.es][last'.tid] ELSE NoTransaction
PostD == IF last'.tid \in TxnIds THEN disputes'[last'.es][last'.tid] ELSE NoDispute
NothingChanged == transactions' = transactions /\ disputes' = disputes

\* The objects the last call was made on, as they are now.
LastT == get_transaction(last.es, last.tid)
LastD == get_dispute(last.es, last.tid)

StatusEdges ==
  {<<CREATED, CANCELLED>>, <<FUNDED, CONFIRMED>>, <<CONFIRMED, COMPLETED>>,
   <<FUNDED, DISPUTED>>, <<CONFIRMED, DISPUTED>>, <<DISPUTED, COMPLETED>>,
   <<DISPUTED, REFUNDED>>, <<DISPUTED, CANCELLED>>}

StatusMethods ==
  {"cancel_transaction", "confirm_transaction", "complete_transaction",
   "open_dispute", "resolve_dispute"}

\* C1: every change of a transaction's status made by cancel_transaction,
\* confirm_transaction, complete_transaction, open_dispute or
\* resolve_dispute is an edge of the documented status graph.
C1_StatusGraph ==
  [][last'.call \in StatusMethods =>
       \A es \in Instances, tid \in TxnIds :
         transactions'[es][tid].status # transactions[es][tid].status
           => <<transactions[es][tid].status, transactions'[es][tid].status>> \in StatusEdges]_vars

\* C2: confirm_transaction on a transaction whose status is not funded
\* returns false and leaves every stored object as it was, and the same
\* call made again returns false again.
C2_ConfirmNeedsFunded ==
  [][(last'.call = "confirm_transaction" /\ PreT.status # FUNDED) =>
       /\ ~last'.ret
       /\ NothingChanged
       /\ \A row \in BOOLEAN :
            LET again == confirm_transaction(PostT, last'.uid, row)
            IN ~again.ret /\ again.txn = PreT]_vars

C2_Witness ==
  /\ last.call = "confirm_transaction"
  /\ ~last.ret
  /\ LastT.status = CONFIRMED
  /\ last.uid = LastT.seller_id

\* C3: when cancel_transaction, confirm_transaction or complete_transaction
\* returns false, the stored transaction's status and completed_at are what
\* they were before the call.
C3_FalseLeavesStatus ==
  [][(last'.call \in {"cancel_transaction", "confirm_transaction", "complete_transaction"}
      /\ ~last'.ret) =>
       /\ PostT.status = PreT.status
       /\ PostT.completed_at = PreT.completed_at]_vars

\* C4: a call of cancel_transaction, confirm_transaction,
\* complete_transaction or open_dispute by a user who is neither seller nor
\* buyer returns false and changes nothing; confirm_transaction changes the
\* status only for the seller and complete_transaction only for the buyer.
C4_OnlyParties ==
  [][/\ (last'.call \in {"cancel_transaction", "confirm_transaction",
                         "complete_transaction", "open_dispute"}
         /\ last'.uid # PreT.seller_id /\ last'.uid # PreT.buyer_id)
          => (~last'.ret /\ NothingChanged)
     /\ (last'.call = "confirm_transaction" /\ PostT.status # PreT.status)
          => last'.uid = PreT.seller_id
     /\ (last'.call = "complete_transaction" /\ PostT.status # PreT.status)
          => last'.uid = PreT.buyer_id]_vars

C4_Witness ==
  /\ last.call = "complete_transaction"
  /\ ~last.ret
  /\ LastT.status = CONFIRMED
  /\ LastT.buyer_id # None
  /\ last.uid # LastT.seller_id
  /\ last.uid # LastT.buyer_id

\* C5: a transaction created through the creation flow can be joined, paid,
\* confirmed and completed through the handlers with every step succeeding;
\* so no step of the flow answers "not found" for a transaction the
\* creation flow has stored.
C5_FlowSucceeds ==
  (last.call \in {"send_payment", "confirm_payment", "payment_callback"}
   /\ last.arg = "not_found")
    => get_transaction(TH, last.tid).status = "absent"

\* C6: while a dispute of a transaction is open, a further open_dispute on
\* that transaction returns false and leaves the dispute record and the
\* transaction as they were.
C6_SingleOpenDispute ==
  [][(last'.call = "open_dispute" /\ PreD.status = OPEN) =>
       (~last'.ret /\ NothingChanged)]_vars

C6_Witness ==
  /\ last.call = "open_dispute"
  /\ ~last.ret
  /\ LastD.status = OPEN
  /\ LastT.status = DISPUTED
  /\ last.uid \in {LastT.seller_id, LastT.buyer_id}

\* C7: open_dispute succeeds exactly when the transaction exists, the
\* caller is its seller or buyer, its status is funded or confirmed and no
\* dispute is recorded; on success the record is open, opened_by is the
\* caller's role and the transaction is disputed; on failure nothing
\* changes.
C7_OpenDispute ==
  [][last'.call = "open_dispute" =>
       LET legal == /\ PreT.status \in {FUNDED, CONFIRMED}
                    /\ last'.uid \in {PreT.seller_id, PreT.buyer_id}
                    /\ PreD.status = "absent"
       IN /\ last'.ret <=> legal
          /\ last'.ret =>
               /\ PostD.status = OPEN
               /\ PostD.opened_by \in {"seller", "buyer"}
               /\ PostD.opened_by = "seller" => last'.uid = PreT.seller_id
               /\ PostD.opened_by = "buyer" => last'.uid = PreT.buyer_id
               /\ PostT.status = DISPUTED
          /\ ~last'.ret => NothingChanged]_vars

C7_Witness ==
  /\ last.call = "open_dispute"
  /\ last.ret
  /\ last.uid = LastT.buyer_id
  /\ last.uid # LastT.seller_id
  /\ LastD.status = OPEN
  /\ LastD.opened_by = "buyer"
  /\ LastT.status = DISPUTED

\* C8: a successful resolve_dispute marks the dispute resolved with the
\* resolution given, and sets the transaction to refunded for buyer and
\* refund and to completed for seller.
C8_ResolutionMapping ==
  [][(last'.call = "resolve_dispute" /\ last'.ret) =>
       /\ PostD.status = RESOLVED
       /\ PostD.resolution = last'.arg
       /\ last'.arg \in {"buyer", "refund"} => PostT.status = REFUNDED
       /\ last'.arg = "seller" => PostT.status = COMPLETED]_vars

C8_Witness ==
  /\ last.call = "resolve_dispute"
  /\ last.ret
  /\ last.arg = "buyer"
  /\ LastD.status = RESOLVED
  /\ LastD.resolution = "buyer"
  /\ LastT.status = REFUNDED

\* C9: resolve_dispute succeeds only for an open dispute and a resolution
\* among buyer, seller, refund; otherwise it returns false and changes
\* neither the dispute nor the transaction.
C9_ResolveGuards ==
  [][last'.call = "resolve_dispute" =>
       /\ last'.ret => (PreD.status = OPEN /\ last'.arg \in {"buyer", "seller", "refund"})
       /\ ~last'.ret => NothingChanged]_vars

\* C10: a transaction whose status is completed has completed_at set.
C10_CompletedAt ==
  \A es \in Instances, tid \in TxnIds :
    transactions[es][tid].status = COMPLETED => transactions[es][tid].completed_at # None

C10_Witness ==
  /\ last.call = "resolve_dispute"
  /\ last.arg = "seller"
  /\ LastT.status = COMPLETED
  /\ LastT.completed_at # None

\* C11: create_transaction with an id that is stored returns false and
\* leaves that transaction and every other stored object as it was.
C11_CreateKeepsStored ==
  [][(last'.call = "create_transaction" /\ PreT.status # "absent") =>
       (~last'.ret /\ NothingChanged)]_vars

C11_Witness ==
  /\ last.call = "create_transaction"
  /\ ~last.ret
  /\ LastT.status = FUNDED
  /\ LastT.buyer_id # None

C13_FeeRounded ==
  (pure.fn = "transaction_amount" /\ pure.out.ok) =>
    LET pct == TRANSACTION_FEE_PERCENTAGE
        exact == (pure.out.amount \div (pct.den * 100)) * pct.num
        diff == pure.out.fee - exact
    IN /\ pure.out.fee % 1000 = 0
       /\ 2 * diff <= 1000
       /\ 2 * diff >= -1000
       /\ pure.out.total_amount = pure.out.amount + pure.out.fee

\* C14: _calculate_priority is urgent for an amount >= 0.1, else high for
\* an amount >= 0.05, else high for payment_not_received and
\* service_not_delivered, else normal; service_not_delivered with 0.01 is
\* high.
C14_Priority ==
  pure.fn = "_calculate_priority" =>
    LET amount == pure.args[1]
        dispute_type == pure.args[2]
    IN /\ amount >= 1000 => pure.out = "urgent"
       /\ (amount < 1000 /\ amount >= 500) => pure.out = "high"
       /\ (amount < 500 /\ dispute_type \in {PAYMENT_NOT_RECEIVED, SERVICE_NOT_DELIVERED})
            => pure.out = "high"
       /\ (amount < 500 /\ dispute_type \notin {PAYMENT_NOT_RECEIVED, SERVICE_NOT_DELIVERED})
            => pure.out = "normal"
       /\ (amount = 100 /\ dispute_type = SERVICE_NOT_DELIVERED) => pure.out = "high"

C14_Witness ==
  /\ pure.fn = "_calculate_priority"
  /\ pure.args = <<100, SERVICE_NOT_DELIVERED>>
  /\ pure.out = "high"

\* C15: an amount of exactly 0.1 is urgent; 0.0999 with a dispute type
\* other than payment_not_received and service_not_delivered is normal.
C15_PriorityBoundary ==
  pure.fn = "_calculate_priority" =>
    /\ pure.args[1] = 1000 => pure.out = "urgent"
    /\ (pure.args[1] = 999
        /\ pure.args[2] \notin {PAYMENT_NOT_RECEIVED, SERVICE_NOT_DELIVERED})
         => pure.out = "normal"

\* C15, amended: an amount of exactly 0.1 is urgent; 0.0999 with a dispute
\* type other than payment_not_received and service_not_delivered is high,
\* because it is not below 0.05; 0.0499 with such a type is normal.
C15_PriorityBoundaryAmended ==
  pure.fn = "_calculate_priority" =>
    LET neutral == pure.args[2] \notin {PAYMENT_NOT_RECEIVED, SERVICE_NOT_DELIVERED}
    IN /\ pure.args[1] = 1000 => pure.out = "urgent"
       /\ (pure.args[1] = 999 /\ neutral) => pure.out = "high"
       /\ (pure.args[1] = 499 /\ neutral) => pure.out = "normal"

C15_Witness ==
  /\ pure.fn = "_calculate_priority"
  /\ pure.args = <<999, QUALITY_ISSUE>>
  /\ pure.out = "high"

\* C16: _assign_moderator returns null exactly when no moderator is active,
\* available and below its maximum; otherwise an eligible moderator: the
\* first whose specialization contains the dispute type whatever the case
\* of the letters, or without one a least loaded moderator, an admin when
\* an admin is among the least loaded.
C16_AssignModerator ==
  pure.fn = "_assign_moderator" =>
    LET dispute_type == pure.args[1]
        table == pure.args[2]
        order == pure.args[3]
        r == pure.out
        Elig == {m \in DOMAIN table : eligible(table[m])}
        Special(m) == contains(lower(dispute_type), lower(table[m].specialization))
        pos(m) == CHOOSE i \in 1..Len(order) : order[i] = m
    IN /\ r = NULL <=> Elig = {}
       /\ r # NULL =>
            /\ r \in Elig
            /\ IF \E m \in Elig : Special(m)
               THEN /\ Special(r)
                    /\ \A m \in Elig : Special(m) => pos(r) <= pos(m)
               ELSE /\ \A m \in Elig :
                         table[r].current_case_load <= table[m].current_case_load
                    /\ (\E m \in Elig :
                          /\ table[m].current_case_load = table[r].current_case_load
                          /\ table[m].role_level = "admin")
                        => table[r].role_level = "admin"

C16_Witness ==
  /\ pure.fn = "_assign_moderator"
  /\ pure.out # NULL
  /\ LET table == pure.args[2]
         order == pure.args[3]
         r == pure.out
     IN /\ table[r].role_level = "admin"
        /\ order[1] # r
        /\ eligible(table[order[1]])
        /\ table[order[1]].current_case_load = table[r].current_case_load
        /\ ~contains(lower(pure.args[1]), lower(table[order[1]].specialization))
        /\ ~contains(lower(pure.args[1]), lower(table[r].specialization))

\* No call of DisputeSystem is in progress.
AllIdle == \A p \in Procs : calls[p].pc = "idle"

\* The disputes assigned to moderator m that are not resolved.
Unresolved(m) ==
  {d \in DisputeIds : /\ dispute_rows[d].status \notin {"absent", "resolved"}
                      /\ dispute_rows[d].assigned_moderator = m}

\* C17: between the calls of one caller, each moderator's
\* current_case_load is the number of unresolved disputes assigned to it.
C17_LoadIsCount ==
  AllIdle =>
    \A m \in DOMAIN moderators :
      moderators[m].current_case_load = Cardinality(Unresolved(m))

\* C18: between the calls of one caller, every moderator's
\* current_case_load is at least 0 and at most max_case_load.
C18_LoadInRange ==
  AllIdle =>
    \A m \in DOMAIN moderators :
      /\ moderators[m].current_case_load >= 0
      /\ moderators[m].current_case_load <= moderators[m].max_case_load

\* C19: when the write that ends an open_dispute call leaves its moderator's
\* current_case_load above max_case_load, the call's filter had seen a load
\* below the maximum and the load it read for the increment was higher than
\* that: another call wrote the row between the two reads.  The witness is a
\* state two interleaved calls reach with the load above the maximum.
C19_RaceOvershoot ==
  [][\A p \in Procs :
       (/\ calls[p].pc = "open_loaded"
        /\ calls'[p].pc = "idle"
        /\ moderators'[calls[p].moderator].current_case_load
             > moderators[calls[p].moderator].max_case_load)
       => /\ calls[p].seen < moderators[calls[p].moderator].max_case_load
          /\ calls[p].load > calls[p].seen
          /\ moderators'[calls[p].moderator].current_case_load
               = calls[p].load + 1]_vars

C19_Witness ==
  /\ AllIdle
  /\ \E m \in DOMAIN moderators :
       /\ moderators[m].current_case_load = moderators[m].max_case_load + 1
       /\ Cardinality(Unresolved(m)) = moderators[m].current_case_load
       /\ moderators[m].cases_resolved = 0

\* C20: when the process of a resolve_dispute stops between the commit of
\* the message and the commit that ends the call, the dispute is committed
\* as resolved and the moderator's current_case_load and cases_resolved
\* are what they were.
C20_TwoWrites ==
  [][\A p \in Procs :
       (calls[p].pc = "resolve_marked" /\ calls'[p].pc = "resolve_crashed") =>
         /\ dispute_rows'[calls[p].dispute].status = "resolved"
         /\ moderators'[calls[p].moderator].current_case_load
              = moderators[calls[p].moderator].current_case_load
         /\ moderators'[calls[p].moderator].cases_resolved
              = moderators[calls[p].moderator].cases_resolved]_vars

C20_Witness ==
  \E p \in Procs :
    /\ calls[p].pc = "resolve_crashed"
    /\ \A q \in Procs \ {p} : calls[q].pc = "idle"
    /\ dispute_rows[calls[p].dispute].status = "resolved"
    /\ dispute_rows[calls[p].dispute].assigned_moderator = calls[p].moderator
    /\ moderators[calls[p].moderator].current_case_load = 1
    /\ moderators[calls[p].moderator].cases_resolved = 0
    /\ \A d \in DisputeIds \ {calls[p].dispute} : dispute_rows[d].status = "absent"

RECURSIVE SumOf(_)
SumOf(ds) == IF ds = <<>> THEN Whole(0) ELSE add(Head(ds), SumOf(Tail(ds)))

\* C21: after the k-th resolution of a moderator that began with
\* cases_resolved = 0, cases_resolved is k and average_resolution_time is
\* the sum of the k resolution times divided by k; after 2, 4 and 6 hours
\* it is 4.
C21_RunningMean ==
  pure.fn = "resolve_dispute" =>
    /\ pure.out.cases_resolved = Len(pure.args)
    /\ pure.out.average_resolution_time
         = div(SumOf(pure.args), Whole(Len(pure.args)))
    /\ pure.args = <<Whole(2), Whole(4), Whole(6)>>
         => pure.out.average_resolution_time = Whole(4)

C21_Witness ==
  /\ pure.fn = "resolve_dispute"
  /\ pure.args = <<Whole(2), Whole(4), Whole(6)>>
  /\ pure.out = [cases_resolved |-> 3, average_resolution_time |-> Whole(4)]

\* The place of a priority in the queue of the moderators.
priority_rank(priority) ==
  CASE priority = "urgent" -> 3 [] priority = "high" -> 2 [] OTHER -> 1

\* C22: get_active_disputes returns exactly the rows whose status is
\* open, investigating or awaiting_response, every urgent row before every
\* high one, every high one before every normal one, and within one
\* priority the row with the older created_at first.
C22_ActiveQueue ==
  pure.fn = "get_active_disputes" =>
    LET table == pure.args[1]
        result == pure.out
    IN /\ {result[i] : i \in DOMAIN result}
            = {d \in DOMAIN table : table[d].status \in ACTIVE_STATUSES}
       /\ \A i, j \in DOMAIN result :
            i < j =>
              LET a == table[result[i]]
                  b == table[result[j]]
              IN \/ priority_rank(a.priority) > priority_rank(b.priority)
                 \/ a.priority = b.priority /\ a.created_at < b.created_at

\* C23: no two rows of the disputes table with the same transaction_id
\* are both active (status open, investigating or awaiting_response).
C23_OneActivePerTransaction ==
  \A d1, d2 \in DisputeIds :
    (/\ d1 # d2
     /\ dispute_rows[d1].status \in ACTIVE_STATUSES
     /\ dispute_rows[d2].status \in ACTIVE_STATUSES)
    => dispute_rows[d1].transaction_id # dispute_rows[d2].transaction_id

\* C24: two consecutive calls of calculate_trust_score for one user, with
\* no change to the profile between them and at whatever times, return the
\* same value and leave the same trust_score and trust_level.
C24_ScoreIdempotent ==
  pure.fn = "calculate_trust_score" =>
    /\ pure.out[1].ret = pure.out[2].ret
    /\ pure.out[1].user.trust_score = pure.out[2].user.trust_score
    /\ pure.out[1].user.trust_level = pure.out[2].user.trust_level

\* The value the scoring rule of the specification gives for a profile
\* days days after it joined.
rule_score(user, days) ==
  LET total_feedback == user.positive_feedback + user.neutral_feedback + user.negative_feedback
      A == IF user.total_trades > 0
           THEN Frac(30 * user.successful_trades, user.total_trades) ELSE Whole(0)
      B == IF total_feedback > 0
           THEN Frac(25 * user.positive_feedback, total_feedback) ELSE Whole(0)
      C == (IF user.phone_verified THEN 7 ELSE 0) + (IF user.email_verified THEN 7 ELSE 0)
           + (IF user.id_verified THEN 6 ELSE 0)
      D == mul(Whole(15), fmin(Frac(days, 30), Whole(1)))
      E == fmax(Whole(0), add(Whole(10), div(user.response_time_avg, Whole(-2))))
  IN fmin(Whole(100), add(add(add(add(add(Whole(50), A), B), Whole(C)), D), E))

\* C25: for an existing profile and every combination of field values,
\* calculate_trust_score returns min(100, 50 + A + B + C + D + E).
C25_ScoreFormula ==
  pure.fn = "calculate_trust_score" =>
    pure.out[1].ret = rule_score(pure.args[1], pure.args[2] - pure.args[1].join_date)

\* C27: for every profile, the value calculate_trust_score returns and the
\* trust_score it stores are between 0 and 100 inclusive.
C27_ScoreInRange ==
  pure.fn = "calculate_trust_score" =>
    \A i \in 1..2 :
      /\ le(Whole(0), pure.out[i].ret) /\ le(pure.out[i].ret, Whole(100))
      /\ le(Whole(0), pure.out[i].user.trust_score)
      /\ le(pure.out[i].user.trust_score, Whole(100))

\* A profile whose points add up to more than 100: fully verified, every
\* trade successful, every feedback positive, 30 days after joining.
C27_Witness ==
  /\ pure.fn = "calculate_trust_score"
  /\ pure.args[1].total_trades = 2 /\ pure.args[1].successful_trades = 2
  /\ pure.args[1].positive_feedback = 1 /\ pure.args[1].neutral_feedback = 0
  /\ pure.args[1].negative_feedback = 0
  /\ pure.args[1].phone_verified /\ pure.args[1].email_verified /\ pure.args[1].id_verified
  /\ pure.args[2] = 30
  /\ pure.out[1].ret = Whole(100)
  /\ pure.out[1].user.trust_score = Whole(100)

\* C26: when get_or_create_user, add_feedback or update_trade_completion
\* returns, the trust_score stored for every profile is the value
\* calculate_trust_score computes from the fields of the profile at that
\* time.
C26_ScoreFresh ==
  [][(GetOrCreateUser \/ AddFeedback \/ UpdateTradeCompletion) =>
       \A u \in TrustUsers :
         user_profiles'[u].exists =>
           user_profiles'[u].trust_score = trust_score_of(user_profiles'[u], today')]_vars

\* C28: the trust_level stored for a profile is the tier of the trust_score
\* stored for it: 90 and more diamond, 80 platinum, 70 gold, 60 silver,
\* 50 bronze, below 50 unverified.
C28_LevelOfScore ==
  \A u \in TrustUsers :
    user_profiles[u].exists =>
      LET score == user_profiles[u].trust_score
      IN user_profiles[u].trust_level =
           CASE le(Whole(90), score) -> "diamond"
             [] lt(score, Whole(90)) /\ le(Whole(80), score) -> "platinum"
             [] lt(score, Whole(80)) /\ le(Whole(70), score) -> "gold"
             [] lt(score, Whole(70)) /\ le(Whole(60), score) -> "silver"
             [] lt(score, Whole(60)) /\ le(Whole(50), score) -> "bronze"
             [] OTHER -> "unverified"

\* A profile scored exactly 80 and one never scored.
C28_Witness ==
  \E u \in TrustUsers :
    /\ user_profiles[u].exists
    /\ user_profiles[u].trust_score = Whole(80)
    /\ user_profiles[u].trust_level = "platinum"
    /\ user_profiles[u].total_trades > 0

\* C29: no call leaves more than one row of user_badges for a user and a
\* badge type, and no call removes a row.
C29_BadgesKept ==
  [][\A u \in TrustUsers, b \in BadgeNames :
       /\ user_badges'[u][b] <= 1
       /\ user_badges'[u][b] >= user_badges[u][b]]_vars

\* The Customer Champion badge, earned with the first positive feedback,
\* is held with one row after a negative feedback has taken the rate
\* of positive feedback to one half and _check_badges has run again.
C29_Witness ==
  \E u \in TrustUsers :
    /\ user_badges[u]["Customer Champion"] = 1
    /\ user_profiles[u].positive_feedback = 1
    /\ user_profiles[u].negative_feedback = 1
    /\ user_profiles[u].total_trades = 1
    /\ user_badges[u]["First Timer"] = 1

\* C30: a user with a Trusted Trader row has at least 10 successful
\* trades, and one with an Elite Trader row at least 50.
C30_TraderBadges ==
  \A u \in TrustUsers :
    /\ user_badges[u]["Trusted Trader"] > 0 => user_profiles[u].successful_trades >= 10
    /\ user_badges[u]["Elite Trader"] > 0 => user_profiles[u].successful_trades >= 50

\* A row of user_feedback for this trade, giver and receiver is stored.
stored_feedback(trade_id, giver_id, receiver_id) ==
  \E i \in DOMAIN user_feedback :
    /\ user_feedback[i].trade_id = trade_id
    /\ user_feedback[i].giver_id = giver_id
    /\ user_feedback[i].receiver_id = receiver_id

\* C31: add_feedback for a trade, giver and receiver that have a stored
\* feedback returns False and changes no feedback row, no profile (counters,
\* trust_score, trust_level) and no badge row.
C31_DuplicateRejected ==
  [][\A trade_id \in TxnIds, giver_id \in Givers, receiver_id \in Givers, rating \in Ratings :
       (/\ AddFeedbackStep(trade_id, giver_id, receiver_id, rating)
        /\ stored_feedback(trade_id, giver_id, receiver_id))
       => /\ pure'.out = FALSE
          /\ user_feedback' = user_feedback
          /\ user_profiles' = user_profiles
          /\ user_badges' = user_badges]_vars

C31_Witness ==
  /\ pure.fn = "add_feedback"
  /\ pure.out = FALSE
  /\ stored_feedback(pure.args[1], pure.args[2], pure.args[3])
  /\ user_profiles[pure.args[3]].exists
  /\ user_profiles[pure.args[3]].positive_feedback
       + user_profiles[pure.args[3]].neutral_feedback
       + user_profiles[pure.args[3]].negative_feedback = 1

C33_ValidTransitions ==
  pure.fn = "validate_transaction_status_transition" =>
    (pure.out.valid
       <=> <<pure.args[1], pure.args[2]>> \in StatusEdges \cup {<<CREATED, FUNDED>>})

\* The sum of the amounts of the entries of one direction.
RECURSIVE SumDirection(_, _)
SumDirection(entries, direction) ==
  IF entries = <<>> THEN 0
  ELSE (IF Head(entries).direction = direction THEN Head(entries).amount ELSE 0)
       + SumDirection(Tail(entries), direction)

\* C37: from a balance of 0, after every deposit and withdraw the balance
\* is not negative and is the sum of the 'in' amounts minus the sum of the
\* 'out' amounts of the transaction list; a withdraw of more than the
\* balance and a deposit or withdraw of an amount that is not positive
\* raise and leave the balance and the transaction list as they were.
C37_WalletLedger ==
  [][WalletCalls =>
       LET before == TheWallet
           amount == pure'.args[1]
           after == pure'.out.wallet
           refused == \/ amount <= 0
                      \/ pure'.fn = "withdraw" /\ amount > before.balance
       IN /\ after.balance >= 0
          /\ after.balance = SumDirection(after.transactions, "in")
                               - SumDirection(after.transactions, "out")
          /\ refused => pure'.out.raised /\ after = before
          /\ ~refused => /\ ~pure'.out.raised
                         /\ Len(after.transactions) = Len(before.transactions) + 1]_vars

\* A withdraw of more than the balance after a deposit and a withdraw
\* that were accepted.
C37_Witness ==
  /\ pure.fn = "withdraw"
  /\ pure.args = <<3>>
  /\ pure.out.raised
  /\ pure.out.wallet.balance = 2
  /\ Len(pure.out.wallet.transactions) = 2
  /\ pure.out.wallet.transactions[1].direction = "in"
  /\ pure.out.wallet.transactions[2].direction = "out"

\* C39: for every moderator cases_resolved is at most cases_handled, and
\* the success_rate of get_moderator_stats lies between 0 and 100.
C39_SuccessRate ==
  \A m \in DOMAIN moderators :
    /\ moderators[m].cases_resolved <= moderators[m].cases_handled
    /\ le(Whole(0), get_moderator_stats(moderators[m]).success_rate)
    /\ le(get_moderator_stats(moderators[m]).success_rate, Whole(100))

\* C34: a /confirm_payment command or a press of the button pay_sent_<id>
\* changes the transaction only when the caller is its buyer and its
\* status is created, and then the status becomes funded; in every other
\* case the transaction is left as it was.
C34_ConfirmNeedsCreated ==
  [][last'.call \in {"confirm_payment", "payment_callback"} =>
       LET before == transactions[PH][last'.tid]
           after == transactions'[PH][last'.tid]
       IN \/ after = before
          \/ /\ before.status = CREATED
             /\ before.buyer_id = last'.uid
             /\ after.status = FUNDED]_vars

\* C35: a transaction stored by the creation flow of the transaction
\* handlers is found by get_transaction in the payment handlers, in
\* PaymentService and in the dispute handlers, with the status the
\* transaction handlers read.
C35_SharedStore ==
  \A tid \in TxnIds :
    get_transaction(TH, tid).status # "absent" =>
      \A es \in {PH, PS, DH} :
        get_transaction(es, tid).status = get_transaction(TH, tid).status

\* C36: a press of 'Yes, Cancel' (txn_cancel_confirm_<id>) by the seller
\* or the buyer of a created transaction leaves it cancelled, and a press
\* of 'Yes, Complete' (txn_complete_confirm_<id>) by the buyer of a
\* confirmed transaction leaves it completed.
C36_ConfirmButtons ==
  [][\A tid \in TxnIds, uid \in Users :
       LET t == get_transaction(TH, tid)
       IN /\ (/\ TransactionCallbackStep(<<"txn", "cancel", "confirm", tid>>, uid)
              /\ t.status = CREATED
              /\ uid \in {t.seller_id, t.buyer_id})
             => transactions'[TH][tid].status = CANCELLED
          /\ (/\ TransactionCallbackStep(<<"txn", "complete", "confirm", tid>>, uid)
              /\ t.status = CONFIRMED
              /\ uid = t.buyer_id)
             => transactions'[TH][tid].status = COMPLETED]_vars

\* C40: in every store a transaction whose buyer_id is set has a buyer_id
\* different from its seller_id.
C40_BuyerIsNotSeller ==
  \A es \in Instances, tid \in TxnIds :
    LET t == get_transaction(es, tid)
    IN (t.status # "absent" /\ t.buyer_id # None) => t.buyer_id # t.seller_id

====
